---- MODULE Spec2Model ----
(***************************************************************************)
(* Model of the Nova assistant's reminder scheduler (SchedulingService,    *)
(* the merge-capable variant) over a Redis-like store: a sorted index      *)
(* "nova_wakeups" (member -> score) and one keyed record per reminder.     *)
(* Every store call is an await, hence a suspension point; each action of  *)
(* the model is one store call (or the callback) together with the local   *)
(* computation that precedes it.                                           *)
(***************************************************************************)
EXTENDS Integers, Sequences, FiniteSets, TLC

\* ------------------------------------------------------------------ bounds
MaxIds == 2         \* distinct reminder ids a behaviour can allocate
MaxOps == 2         \* operations called in a behaviour, one at a time
MaxConcOps == 3     \* operations called in a behaviour, interleaved
MaxCancelOps == 4
MaxRaceOps == 2     \* scheduleWakeup calls in a behaviour of racing callers
MaxTicks == 1       \* clock advances in a behaviour
MaxFaults == 1      \* store calls of the sweep that throw in a behaviour
MaxForeign == 1     \* records written or damaged by something else than this service
MaxFields == 2      \* keys a plan given to resolveEmailIdentifier holds a value for
MaxExchanges == 4   \* calls of addToConversationHistory in a behaviour
MaxHistoryFaults == 2  \* rejections of the store of the conversation history
MaxEvents == 1      \* inbound events handled in a behaviour
MaxToolCalls == 1   \* tool calls the assistant asks for in one run

Procs == {"a", "b"}
SeqProc == "a"
Ids == 1 .. MaxIds
NoId == 0
\* The task text is opaque to the service: the k-th call of a behaviour passes "task<k>".
TaskOf(k) == "task" \o ToString(k)

\* ------------------------------------------------------------- time, in ms
MsPerSecond == 1000
MsPerMinute == 60 * MsPerSecond
MsPerHour == 60 * MsPerMinute
DefaultMergeWindowMs == 2 * 60 * 60 * 1000
StartTime == 24 * MsPerHour
Delays == {0, 1, 120 * MsPerMinute, 135 * MsPerMinute}
TickSteps == {30 * MsPerMinute}
WindowHours == {0, 2}
LegacyTask == "legacy"
LegacyDelays == {1, 135 * MsPerMinute}

NoScore == -1
Infinity == -1
NaN == -2
InvalidDate == -3

\* ---------------------------------------------------------------- records
\* What redis.get can hand back for a key:
\*   "null"     nothing stored (falsy)
\*   "json"     a string that JSON.parse accepts, or the parsed object
\*   "corrupt"  a string that JSON.parse rejects
\*   "badtype"  a truthy value that is neither string nor object (a number)
Null == [kind |-> "null", task |-> "", wakeupTime |-> 0,
         hasMerged |-> FALSE, mergedTasks |-> <<>>]
Corrupt == [Null EXCEPT !.kind = "corrupt"]
BadType == [Null EXCEPT !.kind = "badtype"]

Abs(x) == IF x < 0 THEN -x ELSE x
Min(a, b) == IF a <= b THEN a ELSE b

VARIABLES redis, now, mergeWindowMs, index, store, used, tainted,
          pc, loc, fired, ops, ticks, faults,
          executor, plan, xpc, xloc, calls, brain,
          memory, history, pipeline

vars == <<redis, now, mergeWindowMs, index, store, used, tainted,
          pc, loc, fired, ops, ticks, faults,
          executor, plan, xpc, xloc, calls, brain,
          memory, history, pipeline>>

\* the state of the reminder scheduler, and the state of the action executor
\* and of the reasoning step before it, and the state of the pipeline around
\* them: the memory client, the conversation history, the inbound event
schedVars == <<redis, now, mergeWindowMs, index, store, used, tainted,
               pc, loc, fired, ops, ticks, faults>>
pipeVars == <<memory, history, pipeline>>
execVars == <<executor, plan, xpc, xloc, calls, brain, pipeVars>>

Snapshot == [index |-> index, store |-> store, fired |-> fired, faults |-> faults]
EmptySnapshot == [index |-> [id \in Ids |-> NoScore], store |-> [id \in Ids |-> Null],
                  fired |-> [id \in Ids |-> 0], faults |-> 0]

IdleLoc == [op |-> "none", task |-> "", wakeupTime |-> 0, now |-> 0, window |-> 0,
            list |-> <<>>, i |-> 0, id |-> NoId,
            closestId |-> NoId, closestDistance |-> Infinity,
            data |-> Null, result |-> NoId, out |-> <<>>, outcome |-> "returned",
            visited |-> {}, getFailed |-> {}, pre |-> EmptySnapshot]

\* ------------------------------------------------------- the sorted index
\* The members of S by ascending score, members of equal score in member
\* order: the order in which ZRANGE ... BYSCORE returns them.
RECURSIVE SortByScore(_, _)
SortByScore(idx, S) ==
    IF S = {} THEN <<>>
    ELSE LET m == CHOOSE x \in S : \A y \in S :
                      idx[x] < idx[y] \/ (idx[x] = idx[y] /\ x <= y)
         IN <<m>> \o SortByScore(idx, S \ {m})

\* ZRANGE that forgets its lower bound
ZRangeFrom_NoLowerBound(idx, lo) ==
    SortByScore(idx, {id \in Ids : idx[id] # NoScore})

\* ZRANGE that forgets both bounds
ZRangeByScore_Unbounded(idx, lo, hi) ==
    SortByScore(idx, {id \in Ids : idx[id] # NoScore})

\* ZRANGE key min max BYSCORE
ZRangeByScore(idx, lo, hi) ==
    SortByScore(idx, {id \in Ids : idx[id] # NoScore /\ lo <= idx[id] /\ idx[id] <= hi})

\* ZRANGE key min +inf BYSCORE
ZRangeFrom(idx, lo) ==
    SortByScore(idx, {id \in Ids : idx[id] # NoScore /\ lo <= idx[id]})

\* an id built from the clock alone: two calls in the same millisecond share it
FreshIds_ClockOnly(u) == {m \in Ids : \A o \in Ids : m <= o}

\* an id no reminder has had yet
FreshIds(u) == {m \in Ids \ u : \A o \in Ids \ u : m <= o}

ZAdd(idx, id, score) == [idx EXCEPT ![id] = score]
ZRem(idx, id) == [idx EXCEPT ![id] = NoScore]

\* ------------------------------------------------ process bookkeeping
\* an idle process takes up one more operation
Start(p) == pc[p] = "idle" /\ ops' = ops + 1

\* The operation of p has settled (its promise resolved or rejected).
Finish(p, l) == /\ pc' = [pc EXCEPT ![p] = "done"]
                /\ loc' = [loc EXCEPT ![p] = l]
                /\ UNCHANGED execVars

Goto(p, label, l) == /\ pc' = [pc EXCEPT ![p] = label]
                     /\ loc' = [loc EXCEPT ![p] = l]
                     /\ UNCHANGED execVars

\* The caller takes the result.
Return(p) ==
    /\ pc[p] = "done"
    /\ pc' = [pc EXCEPT ![p] = "idle"]
    /\ loc' = [loc EXCEPT ![p] = IdleLoc]
    /\ UNCHANGED <<redis, now, mergeWindowMs, index, store, used, tainted,
                   fired, ops, ticks, faults>>
    /\ UNCHANGED execVars

\* ---------------------------------------------------------- scheduleWakeup
CombinedLabel(taskCount) == "Combined reminder (" \o ToString(taskCount) \o " tasks)"

\* Math.abs(wakeupData.wakeupTime - targetTime); a number has no wakeupTime
Distance(data, targetTime) ==
    IF data.kind = "badtype" THEN NaN ELSE Abs(data.wakeupTime - targetTime)

\* the first record found wins, whatever its distance
Closer_FirstFound(distance, closestDistance) ==
    distance # NaN /\ closestDistance = Infinity

\* distance < closestDistance, closestDistance starting at Infinity
Closer(distance, closestDistance) ==
    /\ distance # NaN
    /\ (closestDistance = Infinity \/ distance < closestDistance)

AfterFind(l) == IF l.closestId # NoId THEN "merge_get" ELSE "create_set"

\* scheduleWakeup up to findNearbyReminder's range query
ScheduleWakeup(p, task, delayMs) ==
    /\ Start(p)
    /\ LET wakeupTime == now + delayMs
           l0 == [IdleLoc EXCEPT !.op = "schedule", !.task = task,
                                 !.wakeupTime = wakeupTime, !.now = now,
                                 !.window = mergeWindowMs, !.pre = Snapshot]
       IN IF ~redis
          THEN Finish(p, [l0 EXCEPT !.result = NoId])
          ELSE LET nearbyTasks == ZRangeByScore(index, wakeupTime - mergeWindowMs,
                                                wakeupTime + mergeWindowMs)
                   l1 == [l0 EXCEPT !.list = nearbyTasks, !.i = 1]
               IN Goto(p, IF nearbyTasks = <<>> THEN AfterFind(l1) ELSE "find_get", l1)
    /\ UNCHANGED <<redis, now, mergeWindowMs, index, store, used, tainted,
                   fired, ticks, faults>>

\* one iteration of findNearbyReminder's loop: get the record, keep the closest
FindNearbyGet(p) ==
    /\ pc[p] = "find_get"
    /\ LET l == loc[p]
           taskId == l.list[l.i]
           taskData == store[taskId]
           distance == Distance(taskData, l.wakeupTime)
           better == /\ taskData.kind \in {"json", "badtype"}
                     /\ Closer(distance, l.closestDistance)
           l1 == [l EXCEPT !.i = l.i + 1,
                           !.closestId = IF better THEN taskId ELSE l.closestId,
                           !.closestDistance = IF better THEN distance
                                               ELSE l.closestDistance]
       IN Goto(p, IF l.i < Len(l.list) THEN "find_get" ELSE AfterFind(l1), l1)
    /\ UNCHANGED <<redis, now, mergeWindowMs, index, store, used, tainted,
                   fired, ops, ticks, faults>>

\* the new task replaces the list instead of joining it
Merged_Overwrite(wakeupData, newTask, newWakeupTime) ==
    [wakeupData EXCEPT !.hasMerged = TRUE,
                       !.mergedTasks = <<[task |-> newTask, scheduledFor |-> newWakeupTime]>>,
                       !.task = CombinedLabel(1)]

\* wakeupData after the push, the relabelling and the choice of the earliest time
Merged(wakeupData, newTask, newWakeupTime) ==
    LET mergedTasks == (IF wakeupData.hasMerged THEN wakeupData.mergedTasks ELSE <<>>)
                       \o <<[task |-> newTask, scheduledFor |-> newWakeupTime]>>
    IN [wakeupData EXCEPT !.hasMerged = TRUE,
                          !.mergedTasks = mergedTasks,
                          !.task = CombinedLabel(Len(mergedTasks))]

\* the later of the two times instead of the earlier
EarliestTime_Latest(wakeupData, newWakeupTime) ==
    IF wakeupData.wakeupTime >= newWakeupTime THEN wakeupData.wakeupTime ELSE newWakeupTime

EarliestTime(wakeupData, newWakeupTime) == Min(wakeupData.wakeupTime, newWakeupTime)

\* mergeIntoExistingReminder up to its first write
MergeGet(p) ==
    /\ pc[p] = "merge_get"
    /\ LET l == loc[p]
           taskData == store[l.closestId]
           wakeupData == Merged(taskData, l.task, l.wakeupTime)
       IN CASE taskData.kind \in {"null", "corrupt"} ->
                 Finish(p, [l EXCEPT !.result = NoId])
            [] taskData.kind = "badtype" ->
                 \* strict mode: a property cannot be created on a number
                 Finish(p, [l EXCEPT !.outcome = "threw"])
            [] OTHER ->
                 Goto(p, IF EarliestTime(taskData, l.wakeupTime) # taskData.wakeupTime
                         THEN "merge_zrem" ELSE "merge_set",
                      [l EXCEPT !.data = wakeupData])
    /\ UNCHANGED <<redis, now, mergeWindowMs, index, store, used, tainted,
                   fired, ops, ticks, faults>>

MergeZrem(p) ==
    /\ pc[p] = "merge_zrem"
    /\ index' = ZRem(index, loc[p].closestId)
    /\ Goto(p, "merge_zadd",
            [loc[p] EXCEPT !.data.wakeupTime = EarliestTime(loc[p].data, loc[p].wakeupTime)])
    /\ UNCHANGED <<redis, now, mergeWindowMs, store, used, tainted,
                   fired, ops, ticks, faults>>

MergeZadd(p) ==
    /\ pc[p] = "merge_zadd"
    /\ index' = ZAdd(index, loc[p].closestId, loc[p].data.wakeupTime)
    /\ Goto(p, "merge_set", loc[p])
    /\ UNCHANGED <<redis, now, mergeWindowMs, store, used, tainted,
                   fired, ops, ticks, faults>>

MergeSet(p) ==
    /\ pc[p] = "merge_set"
    /\ store' = [store EXCEPT ![loc[p].closestId] = loc[p].data]
    /\ Finish(p, [loc[p] EXCEPT !.result = loc[p].closestId])
    /\ UNCHANGED <<redis, now, mergeWindowMs, index, used, tainted,
                   fired, ops, ticks, faults>>

NewReminder(task, wakeupTime) ==
    [kind |-> "json", task |-> task, wakeupTime |-> wakeupTime, hasMerged |-> TRUE,
     mergedTasks |-> <<[task |-> task, scheduledFor |-> wakeupTime]>>]

\* a fresh "wakeup_<ms>_<random>" id, then redis.set of the new record
CreateSet(p) ==
    /\ pc[p] = "create_set"
    /\ \E taskId \in FreshIds(used) :
          /\ used' = used \cup {taskId}
          /\ store' = [store EXCEPT ![taskId] = NewReminder(loc[p].task, loc[p].wakeupTime)]
          /\ Goto(p, "create_zadd", [loc[p] EXCEPT !.id = taskId])
    /\ UNCHANGED <<redis, now, mergeWindowMs, index, tainted,
                   fired, ops, ticks, faults>>

CreateZadd(p) ==
    /\ pc[p] = "create_zadd"
    /\ index' = ZAdd(index, loc[p].id, loc[p].wakeupTime)
    /\ Finish(p, [loc[p] EXCEPT !.result = loc[p].id])
    /\ UNCHANGED <<redis, now, mergeWindowMs, store, used, tainted,
                   fired, ops, ticks, faults>>

\* setMergeWindow(hours), synchronous
SetMergeWindow(hours) ==
    /\ ops' = ops + 1
    /\ mergeWindowMs # hours * MsPerHour
    /\ mergeWindowMs' = hours * MsPerHour
    /\ UNCHANGED <<redis, now, index, store, used, tainted, pc, loc,
                   fired, ticks, faults>>
    /\ UNCHANGED execVars

\* ---------------------------------------------------------- processWakeups
\* where the for loop goes after the entry at l.i is over
NextEntry(l) == IF l.i < Len(l.list) THEN "sw_get" ELSE "done"

\* no per-entry catch: the failure ends the loop in the outer catch
EntryCatch_Abort(p, l) == Finish(p, l)

\* the per-entry catch: log, go on with the next entry
EntryCatch(p, l) == Goto(p, NextEntry(l), [l EXCEPT !.i = l.i + 1])

\* a store call of the sweep throws (at most MaxFaults times in a behaviour)
Fault(fault) == /\ fault => faults < MaxFaults
                /\ faults' = IF fault THEN faults + 1 ELSE faults

\* processWakeups up to its range query; a throw there lands in the outer catch
ProcessWakeups(p, fault) ==
    /\ Start(p)
    /\ Fault(fault /\ redis)
    /\ LET l0 == [IdleLoc EXCEPT !.op = "sweep", !.now = now, !.pre = Snapshot]
       IN IF ~redis \/ fault
          THEN Finish(p, l0)
          ELSE LET readyTasks == ZRangeByScore(index, 0, now)
                   l1 == [l0 EXCEPT !.list = readyTasks, !.i = 1]
               IN Goto(p, IF readyTasks = <<>> THEN "done" ELSE "sw_get", l1)
    /\ UNCHANGED <<redis, now, mergeWindowMs, index, store, used, tainted,
                   fired, ticks>>

\* get the record of the entry, parse it, and hand the prompt to the callback
SweepGet(p, fault) ==
    /\ pc[p] = "sw_get"
    /\ Fault(fault)
    /\ LET l == loc[p]
           taskId == l.list[l.i]
           taskData == store[taskId]
           l1 == [l EXCEPT !.id = taskId, !.visited = l.visited \cup {taskId}]
       IN CASE fault ->
                 /\ EntryCatch(p, [l1 EXCEPT !.getFailed = l.getFailed \cup {taskId}])
                 /\ UNCHANGED fired
            [] ~fault /\ taskData.kind = "null" ->
                 Goto(p, "sw_zrem", l1) /\ UNCHANGED fired
            [] ~fault /\ taskData.kind = "corrupt" ->
                 Goto(p, "swc_zrem", l1) /\ UNCHANGED fired
            [] ~fault /\ taskData.kind = "badtype" ->
                 \* "Unexpected taskData type": continue
                 EntryCatch(p, l1) /\ UNCHANGED fired
            [] ~fault /\ taskData.kind = "json" ->
                 /\ fired' = [fired EXCEPT ![taskId] = @ + 1]
                 /\ Goto(p, "sw_callback", l1)
    /\ UNCHANGED <<redis, now, mergeWindowMs, index, store, used, tainted,
                   ops, ticks>>

\* await novaCallback(followUpPrompt) settles
SweepCallback(p, throws) ==
    /\ pc[p] = "sw_callback"
    /\ IF throws THEN EntryCatch(p, loc[p]) ELSE Goto(p, "sw_zrem", loc[p])
    /\ UNCHANGED <<redis, now, mergeWindowMs, index, store, used, tainted,
                   fired, ops, ticks, faults>>

\* "Clean up completed task"
SweepZrem(p, fault) ==
    /\ pc[p] = "sw_zrem"
    /\ Fault(fault)
    /\ IF fault THEN EntryCatch(p, loc[p]) /\ UNCHANGED index
       ELSE index' = ZRem(index, loc[p].id) /\ Goto(p, "sw_del", loc[p])
    /\ UNCHANGED <<redis, now, mergeWindowMs, store, used, tainted,
                   fired, ops, ticks>>

SweepDel(p, fault) ==
    /\ pc[p] = "sw_del"
    /\ Fault(fault)
    /\ store' = IF fault THEN store ELSE [store EXCEPT ![loc[p].id] = Null]
    /\ EntryCatch(p, loc[p])
    /\ UNCHANGED <<redis, now, mergeWindowMs, index, used, tainted,
                   fired, ops, ticks>>

\* "Clean up corrupted task", then continue
SweepCorruptZrem(p, fault) ==
    /\ pc[p] = "swc_zrem"
    /\ Fault(fault)
    /\ IF fault THEN EntryCatch(p, loc[p]) /\ UNCHANGED index
       ELSE index' = ZRem(index, loc[p].id) /\ Goto(p, "swc_del", loc[p])
    /\ UNCHANGED <<redis, now, mergeWindowMs, store, used, tainted,
                   fired, ops, ticks>>

SweepCorruptDel(p, fault) ==
    /\ pc[p] = "swc_del"
    /\ Fault(fault)
    /\ store' = IF fault THEN store ELSE [store EXCEPT ![loc[p].id] = Null]
    /\ EntryCatch(p, loc[p])
    /\ UNCHANGED <<redis, now, mergeWindowMs, index, used, tainted,
                   fired, ops, ticks>>

\* ---------------------------------------------------------- cancelReminder
\* no guard on this.redis: without a store the zrem call is a TypeError
CancelReminder(p, taskId) ==
    /\ Start(p)
    /\ LET l0 == [IdleLoc EXCEPT !.op = "cancel", !.id = taskId, !.pre = Snapshot]
       IN IF ~redis
          THEN Finish(p, [l0 EXCEPT !.outcome = "threw"]) /\ UNCHANGED index
          ELSE index' = ZRem(index, taskId) /\ Goto(p, "cn_del", l0)
    /\ UNCHANGED <<redis, now, mergeWindowMs, store, used, tainted,
                   fired, ticks, faults>>

\* the record is left behind: only the index entry was removed
CancelDel_KeepRecord(p) ==
    /\ pc[p] = "cn_del"
    /\ Finish(p, loc[p])
    /\ UNCHANGED <<redis, now, mergeWindowMs, index, store, used, tainted,
                   fired, ops, ticks, faults>>

CancelDel(p) ==
    /\ pc[p] = "cn_del"
    /\ store' = [store EXCEPT ![loc[p].id] = Null]
    /\ Finish(p, loc[p])
    /\ UNCHANGED <<redis, now, mergeWindowMs, index, used, tainted,
                   fired, ops, ticks, faults>>

\* ----------------------------------------------------- getPendingReminders
\* new Date(ms).toLocaleString() keeps whole seconds; undefined gives "Invalid Date"
ToLocaleString(ms) ==
    IF ms = NaN THEN InvalidDate ELSE (ms \div MsPerSecond) * MsPerSecond

\* new Date(localeString) as a number
ParseDate(text) == IF text = InvalidDate THEN NaN ELSE text

\* Math.round(x / 1000 / 60): to the nearest minute, halves upwards
RoundMinutes(ms) == (2 * ms + MsPerMinute) \div (2 * MsPerMinute)

Summary(taskId, wakeupData, nowMs) ==
    IF wakeupData.kind = "badtype"
    THEN [id |-> taskId, scheduledFor |-> ToLocaleString(NaN), task |-> "undefined",
          mergedCount |-> 1, timeUntil |-> NaN]
    ELSE [id |-> taskId, scheduledFor |-> ToLocaleString(wakeupData.wakeupTime),
          task |-> wakeupData.task,
          mergedCount |-> IF wakeupData.hasMerged THEN Len(wakeupData.mergedTasks) ELSE 1,
          timeUntil |-> RoundMinutes(wakeupData.wakeupTime - nowMs)]

\* the comparator (a, b) => new Date(a.scheduledFor) - new Date(b.scheduledFor) < 0
DateBefore(a, b) ==
    /\ ParseDate(a.scheduledFor) # NaN
    /\ ParseDate(b.scheduledFor) # NaN
    /\ ParseDate(a.scheduledFor) < ParseDate(b.scheduledFor)

\* Array.prototype.sort: stable insertion, an element moves left past those it precedes
RECURSIVE InsertSorted(_, _)
InsertSorted(sorted, x) ==
    IF sorted # <<>> /\ DateBefore(x, sorted[Len(sorted)])
    THEN Append(InsertSorted(SubSeq(sorted, 1, Len(sorted) - 1), x), sorted[Len(sorted)])
    ELSE Append(sorted, x)

RECURSIVE SortReminders(_)
SortReminders(reminders) ==
    IF reminders = <<>> THEN <<>>
    ELSE InsertSorted(SortReminders(SubSeq(reminders, 1, Len(reminders) - 1)),
                      reminders[Len(reminders)])

\* getPendingReminders up to its range query
GetPendingReminders(p) ==
    /\ Start(p)
    /\ LET l0 == [IdleLoc EXCEPT !.op = "pending", !.now = now, !.pre = Snapshot]
       IN IF ~redis
          THEN Finish(p, l0)
          ELSE LET allTasks == ZRangeFrom(index, now)
                   l1 == [l0 EXCEPT !.list = allTasks, !.i = 1]
               IN Goto(p, IF allTasks = <<>> THEN "done" ELSE "pd_get", l1)
    /\ UNCHANGED <<redis, now, mergeWindowMs, index, store, used, tainted,
                   fired, ticks, faults>>

\* one iteration of the loop; after the last one the summaries are sorted and returned
PendingGet(p) ==
    /\ pc[p] = "pd_get"
    /\ LET l == loc[p]
           taskId == l.list[l.i]
           taskData == store[taskId]
           reminders == IF taskData.kind \in {"json", "badtype"}
                        THEN Append(l.out, Summary(taskId, taskData, l.now))
                        ELSE l.out
       IN IF l.i < Len(l.list)
          THEN Goto(p, "pd_get", [l EXCEPT !.i = l.i + 1, !.out = reminders])
          ELSE Finish(p, [l EXCEPT !.i = l.i + 1, !.out = SortReminders(reminders)])
    /\ UNCHANGED <<redis, now, mergeWindowMs, index, store, used, tainted,
                   fired, ops, ticks, faults>>

\* ------------------------------------------------------------ environment
\* Date.now() moves on
Tick(d) ==
    /\ ticks < MaxTicks
    /\ ticks' = ticks + 1
    /\ now' = now + d
    /\ UNCHANGED <<redis, mergeWindowMs, index, store, used, tainted, pc, loc,
                   fired, ops, faults>>
    /\ UNCHANGED execVars

\* a reminder persisted by the service's earlier version: no mergedTasks
LegacyReminder(task, wakeupTime) ==
    [kind |-> "json", task |-> task, wakeupTime |-> wakeupTime,
     hasMerged |-> FALSE, mergedTasks |-> <<>>]

LegacyScheduleWakeup(task, delayMs) ==
    /\ redis
    /\ Cardinality(tainted) < MaxForeign
    /\ \E taskId \in FreshIds(used) :
          /\ used' = used \cup {taskId}
          /\ tainted' = tainted \cup {taskId}
          /\ store' = [store EXCEPT ![taskId] = LegacyReminder(task, now + delayMs)]
          /\ index' = ZAdd(index, taskId, now + delayMs)
    /\ UNCHANGED <<redis, now, mergeWindowMs, pc, loc,
                   fired, ops, ticks, faults>>
    /\ UNCHANGED execVars

\* the value under a reminder's key is damaged outside the service: redis.get
\* then yields an unparseable string or a value that is no string and no object
StoreCorruption(taskId, damaged) ==
    /\ redis
    /\ Cardinality(tainted) < MaxForeign
    /\ store[taskId].kind = "json"
    /\ tainted' = tainted \cup {taskId}
    /\ store' = [store EXCEPT ![taskId] = damaged]
    /\ UNCHANGED <<redis, now, mergeWindowMs, index, used, pc, loc,
                   fired, ops, ticks, faults>>
    /\ UNCHANGED execVars

\* ====================================================== the action executor
\* ---------------------------------------------------------- JavaScript values
\* A string is the sequence of its characters, so that trim, the digit test,
\* parseInt and the patterns are computed on the text itself.
Undefined == [t |-> "undefined"]
JsNull == [t |-> "null"]
Num(n) == [t |-> "number", n |-> n]
Str(s) == [t |-> "string", s |-> s]
\* an object or array value, such as the address object a mailer accepts
JsObject == [t |-> "object"]
\* an object with the fields given, an array, true
Obj(fields) == [t |-> "object", fields |-> fields]
JsArray == [t |-> "array"]
JsTrue == [t |-> "boolean", b |-> TRUE]
\* typeof v
TypeOf(v) == IF v.t \in {"null", "array"} THEN "object" ELSE v.t

IsString(v) == v.t = "string"
Truthy(v) == \/ v.t = "number" /\ v.n # 0
             \/ v.t = "string" /\ v.s # <<>>
             \/ v.t \in {"object", "array"}
             \/ v.t = "boolean" /\ v.b

\* a || b
Or(a, b) == IF Truthy(a) THEN a ELSE b

Whitespace == {" "}
DigitChars == <<"0", "1", "2", "3", "4", "5", "6", "7", "8", "9">>
UpperChars == <<"A", "B", "C", "D", "E", "F", "G", "H", "I", "J", "K", "L", "M", "N", "O", "P", "Q", "R", "S", "T", "U", "V", "W", "X", "Y", "Z">>
LowerChars == <<"a", "b", "c", "d", "e", "f", "g", "h", "i", "j", "k", "l", "m", "n", "o", "p", "q", "r", "s", "t", "u", "v", "w", "x", "y", "z">>

IsDigit(c) == \E d \in 1 .. 10 : DigitChars[d] = c
DigitValue(c) == (CHOOSE d \in 1 .. 10 : DigitChars[d] = c) - 1
IsLetter(c) == \E k \in 1 .. 26 : UpperChars[k] = c \/ LowerChars[k] = c
IsWordChar(c) == IsLetter(c) \/ IsDigit(c) \/ c = "_"
Lower(c) == IF \E k \in 1 .. 26 : UpperChars[k] = c
            THEN LowerChars[CHOOSE k \in 1 .. 26 : UpperChars[k] = c]
            ELSE c

\* String.prototype.toLowerCase
ToLowerCase(s) == [k \in 1 .. Len(s) |-> Lower(s[k])]

RECURSIVE TrimStart(_)
TrimStart(s) == IF s # <<>> /\ Head(s) \in Whitespace THEN TrimStart(Tail(s)) ELSE s

RECURSIVE TrimEnd(_)
TrimEnd(s) == IF s # <<>> /\ s[Len(s)] \in Whitespace
              THEN TrimEnd(SubSeq(s, 1, Len(s) - 1)) ELSE s

\* String.prototype.trim
Trim(s) == TrimEnd(TrimStart(s))

\* /^\d+$/.test(s)
AllDigits(s) == s # <<>> /\ \A k \in 1 .. Len(s) : IsDigit(s[k])

\* Number.parseInt(s, 10) of a text of digits
RECURSIVE ParseInt(_)
ParseInt(s) == IF s = <<>> THEN 0
               ELSE 10 * ParseInt(SubSeq(s, 1, Len(s) - 1)) + DigitValue(s[Len(s)])

RECURSIVE DigitsOf(_)
DigitsOf(n) == IF n < 10 THEN <<DigitChars[n + 1]>>
               ELSE DigitsOf(n \div 10) \o <<DigitChars[(n % 10) + 1]>>

\* String(value) of a number or a string
ToText(v) == IF v.t = "string" THEN v.s
             ELSE IF v.n < 0 THEN <<"-">> \o DigitsOf(-v.n) ELSE DigitsOf(v.n)

\* the text w stands in s at position k
MatchAt(s, w, k) == k >= 1 /\ k + Len(w) - 1 <= Len(s) /\ SubSeq(s, k, k + Len(w) - 1) = w

\* String.prototype.includes
Includes(s, w) == \E k \in 1 .. Len(s) : MatchAt(s, w, k)

\* \b before position k of s
WordBoundary(s, k) == (k > 1 /\ k - 1 <= Len(s) /\ IsWordChar(s[k - 1]))
                         # (k >= 1 /\ k <= Len(s) /\ IsWordChar(s[k]))

\* /\bw\b/i.test(s)
HasWord(s, w) == \E k \in 1 .. Len(s) : /\ MatchAt(ToLowerCase(s), w, k)
                                        /\ WordBoundary(s, k)
                                        /\ WordBoundary(s, k + Len(w))

\* ------------------------------------------------------------------- plans
\* A plan is the object the reasoning step hands to the executor: a value for
\* every key the executor reads, Undefined where the plan has no such key.
CandidateKeys == <<"emailId", "emailID", "email_id", "uid", "messageId", "message_id">>

\* the addCriterion calls of resolveEmailIdentifier, in their order
CriterionAliases ==
    << <<"subject", "subject">>, <<"subject", "subject_line">>,
       <<"subject", "emailSubject">>, <<"subject", "title">>,
       <<"sender", "sender">>, <<"sender", "from">>, <<"sender", "author">>,
       <<"sender", "fromEmail">>, <<"sender", "fromAddress">>,
       <<"content", "content">>, <<"content", "snippet">>, <<"content", "body">>,
       <<"content", "preview">>, <<"content", "text">> >>

AliasKeys == {CriterionAliases[k][2] : k \in 1 .. Len(CriterionAliases)}
IdentifierKeys == {CandidateKeys[k] : k \in 1 .. Len(CandidateKeys)}
ReplyKeys == {"response", "message"}
ControlKeys == {"action", "account", "folder", "limit"}
\* what handleSendEmail, handleScheduleReminder and handleAddTask read besides
MessageKeys == {"to", "html", "priority"}
\* what the pipeline reads from the decision besides
DecisionKeys == {"memory"}
ReminderKeys == {"task", "prompt", "context", "category", "when", "delayMs", "delay_ms"}
TaskKeys == {"description", "due_date", "dueDate"}
PlanKeys == IdentifierKeys \cup AliasKeys \cup ReplyKeys \cup ControlKeys
            \cup MessageKeys \cup ReminderKeys \cup TaskKeys \cup DecisionKeys

\* executeAction can be handed a value that is no object at all
IsPlanObject(pl) == DOMAIN pl = PlanKeys

NoPlan == [k \in PlanKeys |-> Undefined]

\* parseEmailSequence's null
NoSeq == -1

\* ------------------------------------------------- resolveEmailIdentifier
parseEmailSequence(value) ==
    IF value \in {Undefined, JsNull} THEN NoSeq
    ELSE LET trimmed == Trim(ToText(value))
         IN IF trimmed = <<>> THEN NoSeq
            ELSE IF AllDigits(trimmed) THEN ParseInt(trimmed) ELSE NoSeq

\* the last candidate key that parses wins instead of the first
FirstSequence_Last(pl, k) ==
    LET parsing == {j \in k .. Len(CandidateKeys) :
                       parseEmailSequence(pl[CandidateKeys[j]]) # NoSeq}
    IN IF parsing = {} THEN NoSeq
       ELSE parseEmailSequence(pl[CandidateKeys[CHOOSE j \in parsing :
                                                   \A i \in parsing : i <= j]])

\* the loop over candidateKeys from key k on: the first value that parses
RECURSIVE FirstSequence(_, _)
FirstSequence(pl, k) ==
    IF k > Len(CandidateKeys) THEN NoSeq
    ELSE IF pl[CandidateKeys[k]] # Undefined
            /\ parseEmailSequence(pl[CandidateKeys[k]]) # NoSeq
         THEN parseEmailSequence(pl[CandidateKeys[k]])
         ELSE FirstSequence(pl, k + 1)

\* fallbackStrings when no candidate key parses: the trimmed non-empty strings
RECURSIVE FallbackStrings(_, _)
FallbackStrings(pl, k) ==
    IF k > Len(CandidateKeys) THEN <<>>
    ELSE LET raw == pl[CandidateKeys[k]]
         IN (IF IsString(raw) /\ Trim(raw.s) # <<>> THEN <<Trim(raw.s)>> ELSE <<>>)
            \o FallbackStrings(pl, k + 1)

NoCriteria == [k \in {} |-> <<>>]

\* criteria[field] = value
SetCriterion(criteria, field, value) ==
    [k \in DOMAIN criteria \cup {field} |-> IF k = field THEN value ELSE criteria[k]]

\* a later alias overwrites an earlier one
addCriterion_LastWins(criteria, field, value) ==
    IF IsString(value) /\ Trim(value.s) # <<>>
    THEN SetCriterion(criteria, field, Trim(value.s))
    ELSE criteria

addCriterion(criteria, field, value) ==
    IF IsString(value) /\ Trim(value.s) # <<>>
    THEN IF field \in DOMAIN criteria /\ criteria[field] # <<>>
         THEN criteria
         ELSE SetCriterion(criteria, field, Trim(value.s))
    ELSE criteria

\* the aliases with the reply text among them, as an earlier version had it
CriteriaSources_WithMessage == CriterionAliases \o << <<"content", "message">> >>

\* the aliases without the last sender alias
CriteriaSources_NoFromAddress == SelectSeq(CriterionAliases, LAMBDA a : a[2] # "fromAddress")

\* the (field, plan key) pairs criteria are derived from
CriteriaSources == CriterionAliases

\* the addCriterion calls from the k-th on
RECURSIVE AddCriteria(_, _, _)
AddCriteria(criteria, pl, k) ==
    IF k > Len(CriteriaSources) THEN criteria
    ELSE AddCriteria(addCriterion(criteria, CriteriaSources[k][1], pl[CriteriaSources[k][2]]),
                     pl, k + 1)

FromPrefix == <<"f", "r", "o", "m">>
SenderWords == {<<"s", "e", "n", "t", " ", "b", "y">>, <<"f", "r", "o", "m">>, <<"b", "y">>, <<"s", "u", "p", "p", "o", "r", "t">>, <<"s", "e", "r", "v", "i", "c", "e">>, <<"t", "e", "a", "m">>, <<"n", "o", "r", "e", "p", "l", "y">>, <<"n", "o", "-", "r", "e", "p", "l", "y">>}

looksLikeSender(text) ==
    /\ text # <<>>
    /\ \/ Includes(ToLowerCase(text), <<"@">>)
       \/ MatchAt(ToLowerCase(text), FromPrefix, 1)
            /\ Len(text) > Len(FromPrefix) /\ text[Len(FromPrefix) + 1] \in Whitespace
       \/ \E w \in SenderWords : HasWord(text, w)

SubjectPrefixes == {<<"r", "e", ":">>, <<"f", "w", ":">>, <<"f", "w", "d", ":">>, <<"s", "u", "b", "j", "e", "c", "t", ":">>}
SubjectWords == {<<"u", "r", "g", "e", "n", "t">>,
                 <<"i", "m", "p", "o", "r", "t", "a", "n", "t">>,
                 <<"m", "e", "e", "t", "i", "n", "g">>,
                 <<"r", "e", "m", "i", "n", "d", "e", "r">>,
                 <<"i", "n", "v", "o", "i", "c", "e">>,
                 <<"r", "e", "c", "e", "i", "p", "t">>,
                 <<"c", "o", "n", "f", "i", "r", "m", "a", "t", "i", "o", "n">>}
SubjectNouns == {<<"m", "e", "e", "t", "i", "n", "g">>, <<"c", "a", "l", "l">>, <<"u", "p", "d", "a", "t", "e">>, <<"r", "e", "p", "o", "r", "t">>}

looksLikeSubject(text) ==
    /\ text # <<>>
    /\ \/ \E w \in SubjectPrefixes : MatchAt(ToLowerCase(text), w, 1)
       \/ \E w \in SubjectWords : HasWord(text, w)
       \/ \E n \in 2 .. Len(text), m \in 1 .. Len(text) :
             /\ \A k \in 1 .. n : IsLetter(text[k])
             /\ n + m <= Len(text)
             /\ \A k \in n + 1 .. n + m : text[k] \in Whitespace
             /\ \E w \in SubjectNouns : MatchAt(ToLowerCase(text), w, n + m + 1)

\* the criteria resolveEmailIdentifier searches with; none: it throws instead
DeriveCriteria(pl) ==
    LET criteria == AddCriteria(NoCriteria, pl, 1)
        fallbackStrings == FallbackStrings(pl, 1)
    IN IF DOMAIN criteria = {} /\ fallbackStrings # <<>>
       THEN LET fallback == fallbackStrings[1]
            IN IF looksLikeSender(fallback) THEN SetCriterion(criteria, "sender", fallback)
               ELSE IF looksLikeSubject(fallback)
                    THEN SetCriterion(criteria, "subject", fallback)
                    ELSE SetCriterion(criteria, "content", fallback)
       ELSE criteria

\* ------------------------------------------------------ the executor's state
NoText == <<>>
NoError == [msg |-> "", about |-> NoText, available |-> <<>>]
Error(msg) == [msg |-> msg, about |-> NoText, available |-> <<>>]

\* the ActionExecutor before its constructor has run
NewExecutor == [constructed |-> FALSE, accounts |-> <<>>, ownerNumber |-> FALSE,
                emailService |-> FALSE, memory |-> FALSE, schedulingService |-> FALSE]

\* the locals of executeAction and of the handler it runs, before a call
IdleExec == [entry |-> "none", actionName |-> NoText,
             account |-> [kind |-> "none", id |-> NoText, error |-> NoError],
             accountId |-> NoText,
             criteria |-> NoCriteria, directResults |-> [kind |-> "none", seqnos |-> <<>>],
             emailId |-> NoSeq, details |-> NoCriteria,
             outcome |-> "pending", error |-> NoError, after |-> "none",
             result |-> [success |-> FALSE], trail |-> <<>>]

NeedIdentification == Error("Need email identification (emailId, subject, sender, or content)")
UnableToLocate == Error("Unable to locate email matching the provided criteria")
SearchFailed == [msg |-> "rejected", about |-> "searchEmailsForSeqno", available |-> <<>>]

\* what searchEmailsForSeqno can resolve with: no value, or an array of sequence numbers
MissingResult == [kind |-> "missing", seqnos |-> <<>>]
Seqnos(s) == [kind |-> "array", seqnos |-> s]
SearchResults == {MissingResult, Seqnos(<<>>), Seqnos(<<42>>), Seqnos(<<42, 17>>)}

ExecUnchanged == UNCHANGED <<schedVars, executor, brain, pipeVars>>

SearchCall(accountId, criteria, limit) ==
    [fn |-> "searchEmailsForSeqno", accountId |-> accountId,
     criteria |-> criteria, limit |-> limit]

\* ------------------------------------------------------------ the dispatcher
DEFAULT_EMAIL_LIMIT == 5

\* the keys of actionHandlers
SendEmail == <<"s", "e", "n", "d", "_", "e", "m", "a", "i", "l">>
CheckEmail == <<"c", "h", "e", "c", "k", "_", "e", "m", "a", "i", "l">>
SearchEmail == <<"s", "e", "a", "r", "c", "h", "_", "e", "m", "a", "i", "l">>
MarkSpam == <<"m", "a", "r", "k", "_", "s", "p", "a", "m">>
MarkRead == <<"m", "a", "r", "k", "_", "r", "e", "a", "d">>
MarkUnread == <<"m", "a", "r", "k", "_", "u", "n", "r", "e", "a", "d">>
DeleteEmail == <<"d", "e", "l", "e", "t", "e", "_", "e", "m", "a", "i", "l">>
MoveEmail == <<"m", "o", "v", "e", "_", "e", "m", "a", "i", "l">>
UnsubscribeEmail == <<"u", "n", "s", "u", "b", "s", "c", "r", "i", "b", "e", "_", "e", "m", "a", "i", "l">>
ScheduleReminder == <<"s", "c", "h", "e", "d", "u", "l", "e", "_", "r", "e", "m", "i", "n", "d", "e", "r">>
AddTask == <<"a", "d", "d", "_", "t", "a", "s", "k">>
CheckCalendar == <<"c", "h", "e", "c", "k", "_", "c", "a", "l", "e", "n", "d", "a", "r">>
WebSearch == <<"w", "e", "b", "_", "s", "e", "a", "r", "c", "h">>

HandlerNames == {SendEmail, CheckEmail, SearchEmail, MarkSpam, MarkRead, MarkUnread,
                 DeleteEmail, MoveEmail, UnsubscribeEmail, ScheduleReminder, AddTask,
                 CheckCalendar, WebSearch}

\* the handlers that resolve a target email, and the mailbox method each calls
TargetHandlers == {MarkSpam, MarkRead, MarkUnread, DeleteEmail, MoveEmail, UnsubscribeEmail}
MailboxMethod(actionName) ==
    CASE actionName = MarkSpam -> "markAsSpam"
      [] actionName = MarkRead -> "markAsRead"
      [] actionName = MarkUnread -> "markAsUnread"
      [] actionName = DeleteEmail -> "deleteEmail"
      [] actionName = MoveEmail -> "moveEmail"
      [] actionName = UnsubscribeEmail -> "unsubscribeFromEmail"
MailboxMethods == {MailboxMethod(a) : a \in TargetHandlers}

\* emailService.accounts: each account has an id and may have an email
Account(id, email) == [id |-> id, email |-> email]
AccountIds(accounts) == [k \in DOMAIN accounts |-> accounts[k].id]

NoAccountSpecified(accounts) ==
    [msg |-> "No email account specified. Available accounts: ", about |-> NoText,
     available |-> AccountIds(accounts)]
AccountNotFound(preferred, accounts) ==
    [msg |-> "Email account not found. Available accounts: ", about |-> preferred,
     available |-> AccountIds(accounts)]
NoAccountAvailable(actionName) ==
    [msg |-> "No email account available for", about |-> actionName, available |-> <<>>]

\* what resolveAccountId gives its caller: an id, null, or an error thrown
AccountUnresolved == [kind |-> "none", id |-> NoText, error |-> NoError]
AccountNull == [kind |-> "null", id |-> NoText, error |-> NoError]
AccountIs(id) == [kind |-> "id", id |-> id, error |-> NoError]
AccountThrows(error) == [kind |-> "throw", id |-> NoText, error |-> error]

\* the loop over accounts from the k-th on: the position of the first match, 0 for none
RECURSIVE MatchAccount(_, _, _)
MatchAccount(accounts, normalized, k) ==
    IF k > Len(accounts) THEN 0
    ELSE IF \/ ToLowerCase(accounts[k].id) = normalized
            \/ accounts[k].email # NoText /\ ToLowerCase(accounts[k].email) = normalized
         THEN k
         ELSE MatchAccount(accounts, normalized, k + 1)

\* the earlier version: absent, blank and unmatched tokens give the first account
resolveAccountId_FirstAccount(accounts, preferred) ==
    IF Len(accounts) = 0 THEN AccountNull
    ELSE IF ~Truthy(preferred) \/ ~IsString(preferred) THEN AccountIs(accounts[1].id)
    ELSE LET normalized == ToLowerCase(Trim(preferred.s))
             k == MatchAccount(accounts, normalized, 1)
         IN IF normalized # <<>> /\ k # 0 THEN AccountIs(accounts[k].id)
            ELSE AccountIs(accounts[1].id)

resolveAccountId(accounts, preferred) ==
    IF Len(accounts) = 0 THEN AccountNull
    ELSE IF ~Truthy(preferred) \/ ~IsString(preferred)
         THEN AccountThrows(NoAccountSpecified(accounts))
    ELSE LET normalized == ToLowerCase(Trim(preferred.s))
             k == MatchAccount(accounts, normalized, 1)
         IN IF normalized = <<>> THEN AccountThrows(NoAccountSpecified(accounts))
            ELSE IF k # 0 THEN AccountIs(accounts[k].id)
            ELSE AccountThrows(AccountNotFound(preferred.s, accounts))

\* executeAction's return values
MissingAction == [success |-> FALSE, error |-> Error("missing_action")]
UnsupportedAction(actionName) ==
    [success |-> FALSE, action |-> actionName, error |-> Error("unsupported_action")]
Success(actionName, details) == [success |-> TRUE, action |-> actionName, details |-> details]
Failure(actionName, error) == [success |-> FALSE, action |-> actionName, error |-> error]

\* the errors handlers and notifyOwner throw, and a collaborator's rejection
NoOwnerNumber == Error("No owner number configured for notification")
MoveNeedsFolder == Error("move_email requires target folder")
SearchNeedsCriterion ==
    Error("search_email requires at least one search criterion (subject, sender, or content)")
Rejected(fn) == [msg |-> "rejected", about |-> fn, available |-> <<>>]
EmailNotConfigured == Error("Email service not configured")
SendNeedsRecipient == Error("send_email requires a 'to' address")
SendNeedsSubject == Error("send_email requires a subject")
SendNeedsBody == Error("send_email requires body or html content")
SchedulingNotConfigured == Error("Scheduling service not configured")
MemoryNotConfigured == Error("Memory service not configured")
AddTaskNeedsTask == Error("add_task requires task description")
\* the TypeErrors of reading a property of null and of calling what is no function
CannotReadAction == Error("Cannot read properties of null (reading 'action')")
NotAFunction == Error("plan.to.includes is not a function")

\* '@msg.fi.google.com'
SmsGateway == <<"@", "m", "s", "g", ".", "f", "i", ".", "g", "o", "o", "g", "l", "e", ".", "c", "o", "m">>

\* the messages notifyOwner is asked to deliver
ReplyMessage(text) == [kind |-> "reply", text |-> text]
UnsupportedMessage(actionName) == [kind |-> "unsupported", text |-> actionName]
ErrorMessage(actionName, error) == [kind |-> "error", text |-> actionName, error |-> error]
SummaryMessage(kind) == [kind |-> kind, text |-> NoText]

MailboxCall(fn, accountId, emailId) == [fn |-> fn, accountId |-> accountId, emailId |-> emailId]
MoveCall(accountId, emailId, folder) ==
    [fn |-> "moveEmail", accountId |-> accountId, emailId |-> emailId, folder |-> folder]
RecentCall(accountId, limit) == [fn |-> "getRecentEmails", accountId |-> accountId, limit |-> limit]
SendCall(message) ==
    [fn |-> "sendEmail", owner |-> TRUE, accountId |-> "nova-sms", body |-> message]

EmailCall(pl) ==
    [fn |-> "sendEmail", owner |-> FALSE, to |-> pl["to"], subject |-> pl["subject"],
     body |-> pl["body"], html |-> pl["html"], priority |-> pl["priority"],
     accountId |-> pl["account"], from |-> pl["from"]]
WakeupCall(task, delayMs, context, category) ==
    [fn |-> "scheduleWakeup", task |-> task, delayMs |-> delayMs, context |-> context,
     category |-> category]
AddTaskCall(task, dueDate, priority) ==
    [fn |-> "addTask", task |-> task, dueDate |-> dueDate, priority |-> priority]

Limit(pl) == IF pl["limit"].t = "number" THEN pl["limit"].n ELSE DEFAULT_EMAIL_LIMIT
Max(a, b) == IF a >= b THEN a ELSE b

\* the phases one executeAction call has gone through, in their order
Phase(l, phase) == [l EXCEPT !.trail = Append(@, phase)]

\* executeAction returns result
ReturnResult(l, result) ==
    /\ xpc' = "done"
    /\ xloc' = [Phase(l, "result") EXCEPT !.result = result, !.outcome = "result"]
    /\ UNCHANGED calls

\* executeAction throws: its promise rejects and no result object exists
ThrowOut(l, error) ==
    /\ xpc' = "done"
    /\ xloc' = [l EXCEPT !.error = error, !.outcome = "threw"]
    /\ UNCHANGED calls

\* notifyOwnerIfNeeded in a finally: it also runs once the catch is through
Continue_NotifyInFinally(l, after) ==
    CASE after = "unsupported" -> ReturnResult(l, UnsupportedAction(l.actionName))
      [] after = "failure" -> ReturnResult(Phase(l, "notified"), Failure(l.actionName, l.error))
      [] after = "success" -> ReturnResult(l, Success(l.actionName, l.details))

\* executeAction after a notifyOwner call it awaited
Continue(l, after) ==
    CASE after = "unsupported" -> ReturnResult(l, UnsupportedAction(l.actionName))
      [] after = "failure" -> ReturnResult(l, Failure(l.actionName, l.error))
      [] after = "success" -> ReturnResult(l, Success(l.actionName, l.details))

\* notifyOwner(message, { force }) with a message that is not empty, up to its
\* sendEmail; without an email service the call throws inside notifyOwner's own
\* try and nothing is sent
SendToOwner(l, message, after) ==
    /\ calls' = IF executor.emailService THEN Append(calls, SendCall(message)) ELSE calls
    /\ xpc' = "notify"
    /\ xloc' = [l EXCEPT !.after = after]

\* notifyOwner(message) without force
NotifyOwner(l, message, after) ==
    IF ~executor.ownerNumber THEN Continue(l, after) ELSE SendToOwner(l, message, after)

\* the catch of executeAction
Catch(l, error) ==
    NotifyOwner(Phase([l EXCEPT !.error = error], "failed"),
                ErrorMessage(l.actionName, error), "failure")

\* notifyOwner(message, { force: true }) inside a handler that then returns details
NotifyOwnerForced(l, message) ==
    IF ~executor.ownerNumber THEN Catch(l, NoOwnerNumber) ELSE SendToOwner(l, message, "handler")

\* notifyOwnerIfNeeded's loop prevention: plan.action === 'send_email' && plan.to
\* && plan.to.includes('@msg.fi.google.com'); "throw" when plan.to has no includes
DeliversReply(pl) ==
    IF pl["action"] = Str(SendEmail) /\ Truthy(pl["to"])
    THEN IF ~IsString(pl["to"]) THEN "throw"
         ELSE IF Includes(pl["to"].s, SmsGateway) THEN "skip" ELSE "deliver"
    ELSE "deliver"

\* notifyOwnerIfNeeded without its test of skipOwnerNotification
HandlerReturns_IgnoresSkip(l, details) ==
    LET ld == Phase([l EXCEPT !.details = details], "succeeded")
    IN IF ~Truthy(plan["response"]) \/ ~executor.ownerNumber THEN Continue(ld, "success")
       ELSE CASE DeliversReply(plan) = "throw" -> Catch(ld, NotAFunction)
              [] DeliversReply(plan) = "skip" -> Continue(ld, "success")
              [] DeliversReply(plan) = "deliver" ->
                     NotifyOwner(Phase(ld, "notified"), ReplyMessage(plan["response"]),
                                 "success")

\* the handler returned details: notifyOwnerIfNeeded, then the result
HandlerReturns(l, details) ==
    LET ld == Phase([l EXCEPT !.details = details], "succeeded")
    IN IF ~Truthy(plan["response"]) \/ ~executor.ownerNumber THEN Continue(ld, "success")
       ELSE IF "skipOwnerNotification" \in DOMAIN details THEN Continue(ld, "success")
       ELSE CASE DeliversReply(plan) = "throw" -> Catch(ld, NotAFunction)
              [] DeliversReply(plan) = "skip" -> Continue(ld, "success")
              [] DeliversReply(plan) = "deliver" ->
                     NotifyOwner(Phase(ld, "notified"), ReplyMessage(plan["response"]),
                                 "success")

\* the handler calls the mailbox with the first configured account, not with
\* the account it resolved
Resolved_FirstAccount(l, emailId) ==
    IF l.entry = "resolveEmailIdentifier"
    THEN /\ xpc' = "done"
         /\ xloc' = [l EXCEPT !.emailId = emailId, !.outcome = "returned"]
         /\ UNCHANGED calls
    ELSE /\ calls' = Append(calls,
                        IF l.actionName = MoveEmail
                        THEN MoveCall(executor.accounts[1].id, emailId, plan["folder"])
                        ELSE MailboxCall(MailboxMethod(l.actionName),
                                         executor.accounts[1].id, emailId))
         /\ xpc' = "mailbox"
         /\ xloc' = [l EXCEPT !.emailId = emailId]

\* resolveEmailIdentifier returns emailId: to the caller of the method itself,
\* or to the handler that awaits it and calls the mailbox with it
Resolved(l, emailId) ==
    IF l.entry = "resolveEmailIdentifier"
    THEN /\ xpc' = "done"
         /\ xloc' = [l EXCEPT !.emailId = emailId, !.outcome = "returned"]
         /\ UNCHANGED calls
    ELSE /\ calls' = Append(calls,
                        IF l.actionName = MoveEmail
                        THEN MoveCall(l.accountId, emailId, plan["folder"])
                        ELSE MailboxCall(MailboxMethod(l.actionName), l.accountId, emailId))
         /\ xpc' = "mailbox"
         /\ xloc' = [l EXCEPT !.emailId = emailId]

\* an error is thrown: to the caller of the method itself, or into the catch
\* of executeAction
Thrown(l, error) ==
    IF l.entry = "resolveEmailIdentifier"
    THEN /\ xpc' = "done"
         /\ xloc' = [l EXCEPT !.error = error, !.outcome = "threw"]
         /\ UNCHANGED calls
    ELSE Catch(l, error)

\* resolveEmailIdentifier(accountId, pl) up to its search
ResolveFrom(l, pl) ==
    LET parsed == FirstSequence(pl, 1)
        criteria == DeriveCriteria(pl)
    IN IF parsed # NoSeq
       THEN Resolved(l, parsed)
       ELSE IF DOMAIN criteria = {}
            THEN Thrown(l, NeedIdentification)
            ELSE /\ calls' = Append(calls, SearchCall(l.accountId, criteria, 3))
                 /\ xpc' = "resolve_search"
                 /\ xloc' = [l EXCEPT !.criteria = criteria]

\* resolveEmailIdentifier called on its own
ResolveEmailIdentifier(accountId) ==
    /\ xpc = "idle"
    /\ ResolveFrom([IdleExec EXCEPT !.entry = "resolveEmailIdentifier",
                                    !.accountId = accountId], plan)
    /\ UNCHANGED plan
    /\ ExecUnchanged

\* the first result is taken even when the search found nothing
FirstResult_Unchecked(l, directResults) ==
    Resolved(l, IF directResults.seqnos = <<>> THEN 0 ELSE directResults.seqnos[1])

\* the last result is taken instead of the first
FirstResult_Last(l, directResults) ==
    IF directResults.kind = "missing" \/ Len(directResults.seqnos) = 0
    THEN Thrown(l, UnableToLocate)
    ELSE Resolved(l, directResults.seqnos[Len(directResults.seqnos)])

\* directResults[0], or the no-match error
FirstResult(l, directResults) ==
    IF directResults.kind = "missing" \/ Len(directResults.seqnos) = 0
    THEN Thrown(l, UnableToLocate)
    ELSE Resolved(l, directResults.seqnos[1])

\* await searchEmailsForSeqno(...) resolves
SearchReturns(directResults) ==
    /\ xpc = "resolve_search"
    /\ FirstResult([xloc EXCEPT !.directResults = directResults], directResults)
    /\ UNCHANGED plan
    /\ ExecUnchanged

\* await searchEmailsForSeqno(...) rejects
SearchRejects ==
    /\ xpc = "resolve_search"
    /\ Thrown(xloc, SearchFailed)
    /\ UNCHANGED plan
    /\ ExecUnchanged

\* the constructor: the collaborators and MY_NUMBER the executor is built with
Constructor(services, accounts, ownerNumber) ==
    /\ ~executor.constructed
    /\ xpc = "idle"
    /\ plan = NoPlan
    /\ ~services.emailService => accounts = <<>>
    /\ executor' = [constructed |-> TRUE, accounts |-> accounts, ownerNumber |-> ownerNumber,
                    emailService |-> services.emailService, memory |-> services.memory,
                    schedulingService |-> services.schedulingService]
    /\ UNCHANGED <<schedVars, plan, xpc, xloc, calls, brain, pipeVars>>

SearchFields == {"subject", "sender", "content"}

\* the criteria handleSearchEmail builds from the plan
SearchEmailCriteria(pl) ==
    [field \in {f \in SearchFields : IsString(pl[f]) /\ Trim(pl[f].s) # <<>>} |->
        Trim(pl[field].s)]

\* the search goes out even when the plan gave no criterion
HandleSearchEmail_MatchAll(l) ==
    /\ calls' = Append(calls, SearchCall(l.accountId, SearchEmailCriteria(plan), Limit(plan)))
    /\ xpc' = "search_email"
    /\ xloc' = [l EXCEPT !.criteria = SearchEmailCriteria(plan)]

\* handleSearchEmail once the account is resolved, up to its search
HandleSearchEmail(l) ==
    LET criteria == SearchEmailCriteria(plan)
    IN IF DOMAIN criteria = {} THEN Catch(l, SearchNeedsCriterion)
       ELSE /\ calls' = Append(calls, SearchCall(l.accountId, criteria, Limit(plan)))
            /\ xpc' = "search_email"
            /\ xloc' = [l EXCEPT !.criteria = criteria]

\* handleCheckEmail once the account is resolved, up to getRecentEmails
HandleCheckEmail(l) ==
    /\ calls' = Append(calls, RecentCall(l.accountId, Limit(plan)))
    /\ xpc' = "recent"
    /\ xloc' = l

\* handleMarkSpam .. handleUnsubscribeEmail once the account is resolved, up to
\* the search of resolveEmailIdentifier or the mailbox call
HandleTarget(l) ==
    IF l.actionName = MoveEmail /\ ~Truthy(plan["folder"]) THEN Catch(l, MoveNeedsFolder)
    ELSE ResolveFrom(l, plan)

\* handleUnsupportedAction
HandleUnsupportedAction(l) ==
    NotifyOwnerForced([l EXCEPT !.details = [warning |-> l.actionName,
                                             skipOwnerNotification |-> TRUE]],
                      SummaryMessage("warning"))

\* a ?? b
Coalesce(a, b) == IF a \in {Undefined, JsNull} THEN b ELSE a

UntitledReminder == <<"U", "n", "t", "i", "t", "l", "e", "d", " ", "r", "e", "m", "i", "n", "d", "e", "r">>
ScheduledFollowUp == <<"S", "c", "h", "e", "d", "u", "l", "e", "d", " ", "f", "o", "l", "l", "o", "w", "-", "u", "p">>
Medium == <<"m", "e", "d", "i", "u", "m">>
DefaultDelayMs == 900000

\* the units of parseDelay's pattern and their multipliers
DelayUnits == <<<<"s", "e", "c", "o", "n", "d">>, <<"m", "i", "n", "u", "t", "e">>, <<"h", "o", "u", "r">>, <<"d", "a", "y">>, <<"w", "e", "e", "k">>, <<"m", "o", "n", "t", "h">>>>
Multiplier(u) ==
    CASE u = 1 -> 1000
      [] u = 2 -> 60 * 1000
      [] u = 3 -> 60 * 60 * 1000
      [] u = 4 -> 24 * 60 * 60 * 1000
      [] u = 5 -> 7 * 24 * 60 * 60 * 1000
      [] u = 6 -> 30 * 24 * 60 * 60 * 1000

\* the position after the run of digits, and of whitespace, that starts at k
RECURSIVE DigitsEnd(_, _)
DigitsEnd(s, k) == IF k <= Len(s) /\ IsDigit(s[k]) THEN DigitsEnd(s, k + 1) ELSE k
RECURSIVE SpacesEnd(_, _)
SpacesEnd(s, k) == IF k <= Len(s) /\ s[k] \in Whitespace THEN SpacesEnd(s, k + 1) ELSE k

RECURSIVE Pow10(_)
Pow10(n) == IF n = 0 THEN 1 ELSE 10 * Pow10(n - 1)

UnitsAt(s, k) == {u \in 1 .. Len(DelayUnits) : MatchAt(ToLowerCase(s), DelayUnits[u], k)}

\* /(\d+(?:\.\d+)?)\s*(second|minute|hour|day|week|month)s?/i tried at position k
NoMatch == [found |-> FALSE]
DelayMatchAt(s, k) ==
    LET e == DigitsEnd(s, k)
        f == IF e <= Len(s) /\ s[e] = "." THEN DigitsEnd(s, e + 1) ELSE e
        whole == UnitsAt(s, SpacesEnd(s, e))
        fractional == IF f > e + 1 THEN UnitsAt(s, SpacesEnd(s, f)) ELSE {}
    IN IF e = k THEN NoMatch
       ELSE IF fractional # {}
            THEN [found |-> TRUE, int |-> SubSeq(s, k, e - 1), frac |-> SubSeq(s, e + 1, f - 1),
                  unit |-> CHOOSE u \in fractional : TRUE]
       ELSE IF whole # {}
            THEN [found |-> TRUE, int |-> SubSeq(s, k, e - 1), frac |-> <<>>,
                  unit |-> CHOOSE u \in whole : TRUE]
       ELSE NoMatch

\* text.match(pattern): the leftmost position where the pattern matches
RECURSIVE DelayMatch(_, _)
DelayMatch(s, k) ==
    IF k > Len(s) THEN NoMatch
    ELSE IF DelayMatchAt(s, k).found THEN DelayMatchAt(s, k) ELSE DelayMatch(s, k + 1)

\* parseInt(text, 10): the digits after leading whitespace and a sign, NoSeq for NaN
LeadingInt(s) ==
    LET t == TrimStart(s)
        signed == t # <<>> /\ Head(t) \in {"+", "-"}
        u == IF signed THEN Tail(t) ELSE t
        e == DigitsEnd(u, 1)
    IN IF e = 1 THEN NoSeq ELSE ParseInt(SubSeq(u, 1, e - 1))
NegativeInt(s) == TrimStart(s) # <<>> /\ Head(TrimStart(s)) = "-"

parseDelay(text) ==
    IF ~Truthy(text) \/ ~IsString(text) THEN JsNull
    ELSE LET m == DelayMatch(text.s, 1)
         IN IF m.found
            THEN LET scale == Pow10(Len(m.frac))
                     value == ParseInt(m.int) * scale + ParseInt(m.frac)
                 IN Num((2 * value * Multiplier(m.unit) + scale) \div (2 * scale))
            ELSE IF LeadingInt(text.s) = NoSeq THEN JsNull
            ELSE Num((IF NegativeInt(text.s) THEN -1 ELSE 1) * LeadingInt(text.s) * 60 * 1000)

\* handleSendEmail up to its sendEmail
HandleSendEmail(l) ==
    IF ~executor.emailService THEN Catch(l, EmailNotConfigured)
    ELSE IF ~Truthy(plan["to"]) THEN Catch(l, SendNeedsRecipient)
    ELSE IF ~Truthy(plan["subject"]) THEN Catch(l, SendNeedsSubject)
    ELSE IF ~Truthy(plan["body"]) /\ ~Truthy(plan["html"]) THEN Catch(l, SendNeedsBody)
    ELSE /\ calls' = Append(calls, EmailCall(plan))
         /\ xpc' = "send"
         /\ xloc' = l

\* handleScheduleReminder up to its scheduleWakeup
HandleScheduleReminder(l) ==
    IF ~executor.schedulingService THEN Catch(l, SchedulingNotConfigured)
    ELSE LET task == Or(Or(plan["task"], plan["prompt"]), Str(UntitledReminder))
             context == Or(plan["context"], Str(ScheduledFollowUp))
             category == Or(plan["category"], JsNull)
             delayMs == Coalesce(Coalesce(Coalesce(parseDelay(plan["when"]), plan["delayMs"]),
                                          plan["delay_ms"]), Num(DefaultDelayMs))
         IN /\ calls' = Append(calls, WakeupCall(task, delayMs, context, category))
            /\ xpc' = "schedule"
            /\ xloc' = [l EXCEPT !.details = [task |-> task, delayMs |-> delayMs,
                                              context |-> context, category |-> category]]

\* handleAddTask up to its addTask
HandleAddTask(l) ==
    IF ~executor.memory THEN Catch(l, MemoryNotConfigured)
    ELSE LET task == Or(plan["task"], plan["description"])
             dueDate == Or(plan["due_date"], plan["dueDate"])
             priority == Or(plan["priority"], Str(Medium))
         IN IF ~Truthy(task) THEN Catch(l, AddTaskNeedsTask)
            ELSE /\ calls' = Append(calls, AddTaskCall(task, dueDate, priority))
                 /\ xpc' = "add_task"
                 /\ xloc' = [l EXCEPT !.details = [task |-> task, dueDate |-> dueDate,
                                                   priority |-> priority]]

\* the handler of l.actionName up to its first await
Handler(l) ==
    IF l.actionName \in {CheckCalendar, WebSearch} THEN HandleUnsupportedAction(l)
    ELSE IF l.actionName = SendEmail THEN HandleSendEmail(l)
    ELSE IF l.actionName = ScheduleReminder THEN HandleScheduleReminder(l)
    ELSE IF l.actionName = AddTask THEN HandleAddTask(l)
    ELSE LET account == resolveAccountId(executor.accounts, plan["account"])
             la == [l EXCEPT !.account = account, !.accountId = account.id]
         IN IF account.kind = "throw" THEN Catch(la, account.error)
            ELSE IF account.kind = "null" THEN Catch(la, NoAccountAvailable(l.actionName))
            ELSE CASE l.actionName = CheckEmail -> HandleCheckEmail(la)
                   [] l.actionName = SearchEmail -> HandleSearchEmail(la)
                   [] l.actionName \in TargetHandlers -> HandleTarget(la)

\* plan.action of whatever executeAction was handed: a property of null cannot
\* be read, a number or a string has no such property
ActionOf(pl) == IF IsPlanObject(pl) THEN pl["action"] ELSE Undefined

\* the action string is taken as it is, not trimmed
ActionName_Untrimmed(pl) == IF IsString(ActionOf(pl)) THEN ActionOf(pl).s ELSE NoText

\* typeof plan.action === "string" ? plan.action.trim() : ""
ActionName(pl) == IF IsString(ActionOf(pl)) THEN Trim(ActionOf(pl).s) ELSE NoText

\* executeAction(plan) up to its first await, or to its result
ExecuteAction ==
    /\ xpc = "idle"
    /\ executor.constructed
    /\ LET actionName == ActionName(plan)
           l == Phase([IdleExec EXCEPT !.entry = "executeAction", !.actionName = actionName],
                      "received")
       IN IF plan = JsNull THEN ThrowOut(l, CannotReadAction)
          ELSE IF actionName = NoText
               THEN ReturnResult(Phase(l, "rejected_no_action"), MissingAction)
          ELSE IF actionName \notin HandlerNames
               THEN NotifyOwner(Phase(l, "rejected_unsupported"),
                                IF Truthy(plan["response"])
                                THEN ReplyMessage(plan["response"])
                                ELSE UnsupportedMessage(actionName), "unsupported")
               ELSE Handler(Phase(l, "dispatched"))
    /\ UNCHANGED plan
    /\ ExecUnchanged

\* what unsubscribeFromEmail can resolve with: nothing, an object without any of
\* the fields the summary lists, an object with some
UnsubscribeInfos == {"none", "empty", "listed"}

\* await emailService.<mailbox method>(...) resolves
MailboxReturns(info) ==
    /\ xpc = "mailbox"
    /\ IF xloc.actionName = UnsubscribeEmail
       THEN LET details == [accountId |-> xloc.accountId, emailId |-> xloc.emailId,
                            info |-> info, skipOwnerNotification |-> TRUE]
            IN IF info # "empty"
               THEN NotifyOwnerForced([xloc EXCEPT !.details = details],
                                      SummaryMessage("unsubscribe"))
               ELSE HandlerReturns(xloc, details)
       ELSE /\ info = "none"
            /\ HandlerReturns(xloc,
                  IF xloc.actionName = MoveEmail
                  THEN [accountId |-> xloc.accountId, emailId |-> xloc.emailId,
                        folder |-> plan["folder"]]
                  ELSE [accountId |-> xloc.accountId, emailId |-> xloc.emailId])
    /\ UNCHANGED plan
    /\ ExecUnchanged

\* await emailService.searchEmailsForSeqno(...) of handleSearchEmail resolves
SearchEmailReturns(seqnos) ==
    /\ xpc = "search_email"
    /\ IF seqnos.kind = "array" /\ Len(seqnos.seqnos) > 0
       THEN /\ calls' = Append(calls, RecentCall(xloc.accountId,
                                                Max(25, Limit(plan))))
            /\ xpc' = "search_recent"
            /\ xloc' = [xloc EXCEPT !.directResults = seqnos]
       ELSE NotifyOwnerForced([xloc EXCEPT !.directResults = seqnos,
                                           !.details = [accountId |-> xloc.accountId,
                                                        results |-> <<>>,
                                                        criteria |-> xloc.criteria,
                                                        skipOwnerNotification |-> TRUE]],
                              SummaryMessage("results"))
    /\ UNCHANGED plan
    /\ ExecUnchanged

\* await emailService.getRecentEmails(...) resolves, in handleCheckEmail or in
\* handleSearchEmail
RecentReturns ==
    /\ xpc \in {"recent", "search_recent"}
    /\ IF xpc = "recent"
       THEN NotifyOwnerForced([xloc EXCEPT !.details = [accountId |-> xloc.accountId,
                                                        emails |-> "recent",
                                                        skipOwnerNotification |-> TRUE]],
                              SummaryMessage("emails"))
       ELSE NotifyOwnerForced([xloc EXCEPT !.details = [accountId |-> xloc.accountId,
                                                        results |-> xloc.directResults.seqnos,
                                                        criteria |-> xloc.criteria,
                                                        skipOwnerNotification |-> TRUE]],
                              SummaryMessage("results"))
    /\ UNCHANGED plan
    /\ ExecUnchanged

\* await emailService.sendEmail(...) resolves in handleSendEmail
SendReturns ==
    /\ xpc = "send"
    /\ HandlerReturns(xloc, [email |-> "result"])
    /\ UNCHANGED plan
    /\ ExecUnchanged

\* what scheduleWakeup resolves with: an id, or null without a store
WakeupIds == {Str(<<"w", "1">>), JsNull}

\* await schedulingService.scheduleWakeup(...) resolves
ScheduleReturns(id) ==
    /\ xpc = "schedule"
    /\ HandlerReturns(xloc, [k \in DOMAIN xloc.details \cup {"id"} |->
                                IF k = "id" THEN id ELSE xloc.details[k]])
    /\ UNCHANGED plan
    /\ ExecUnchanged

\* await memory.addTask(...) resolves
AddTaskReturns ==
    /\ xpc = "add_task"
    /\ HandlerReturns(xloc, xloc.details)
    /\ UNCHANGED plan
    /\ ExecUnchanged

\* an awaited collaborator call of a handler rejects
CallRejects ==
    /\ xpc \in {"mailbox", "search_email", "recent", "search_recent",
                "send", "schedule", "add_task"}
    /\ Catch(xloc, Rejected(calls[Len(calls)].fn))
    /\ UNCHANGED plan
    /\ ExecUnchanged

\* the sendEmail of notifyOwner settles; a rejection is swallowed
NotifySettles ==
    /\ xpc = "notify"
    /\ IF xloc.after = "handler" THEN HandlerReturns(xloc, xloc.details)
       ELSE Continue(xloc, xloc.after)
    /\ UNCHANGED plan
    /\ ExecUnchanged

\* the caller takes the outcome
ExecReturn ==
    /\ xpc = "done"
    /\ xpc' = "idle"
    /\ xloc' = IdleExec
    /\ plan' = NoPlan
    /\ calls' = <<>>
    /\ ExecUnchanged

\* =========================================================== the reasoning step
\* ---------------------------------------------------- NovaBrain.respond
BASE_ALLOWED_ACTIONS ==
    {SendEmail, CheckEmail, SearchEmail, MarkSpam, MarkRead, MarkUnread, DeleteEmail,
     MoveEmail, UnsubscribeEmail, ScheduleReminder, AddTask, CheckCalendar, WebSearch}
EMAIL_CONTEXT_ACTIONS ==
    {SendEmail, SearchEmail, MarkSpam, DeleteEmail, MoveEmail, UnsubscribeEmail,
     MarkRead, MarkUnread, ScheduleReminder}
ERROR_CONTEXT_ACTIONS == {SendEmail}

GeneralContext == <<"g", "e", "n", "e", "r", "a", "l">>
EmailContext == <<"e", "m", "a", "i", "l">>
ErrorContext == <<"e", "r", "r", "o", "r">>
IncomingEmailContext == <<"i", "n", "c", "o", "m", "i", "n", "g", "_", "e", "m", "a", "i", "l">>

getAllowedActionsForContext(context) ==
    CASE ToLowerCase(context) \in {EmailContext, IncomingEmailContext} -> EMAIL_CONTEXT_ACTIONS
      [] ToLowerCase(context) = ErrorContext -> ERROR_CONTEXT_ACTIONS
      [] OTHER -> BASE_ALLOWED_ACTIONS

\* the content of the model's message: none, a text that is no JSON, or the
\* JSON text of a value
NoContent == [kind |-> "none"]
NotJson == [kind |-> "text", json |-> FALSE]
Json(value) == [kind |-> "text", json |-> TRUE, value |-> value]

\* safeJsonParse(text): null for no text and for a text JSON.parse rejects
safeJsonParse(content) ==
    IF content.kind = "none" THEN JsNull
    ELSE IF ~content.json THEN JsNull
    ELSE content.value

\* raw && typeof raw === "object" ? { ...raw } : {}; an array spreads into
\* its index keys, none of which is read
Spread(raw) ==
    IF Truthy(raw) /\ TypeOf(raw) = "object"
    THEN IF raw.t = "object" THEN raw.fields ELSE NoPlan
    ELSE NoPlan

\* value.action of whatever value is
ActionIn(value) == IF value.t = "object" THEN value.fields["action"] ELSE Undefined

\* the nested action { action: { action: name, ...params } } is flattened
Flatten(result) ==
    IF Truthy(result["action"]) /\ TypeOf(result["action"]) = "object"
       /\ Truthy(ActionIn(result["action"]))
    THEN LET params == result["action"].fields
         IN [k \in PlanKeys |->
                IF k = "action" THEN params["action"]
                ELSE IF params[k] # Undefined THEN params[k] ELSE result[k]]
    ELSE result

\* every string action is kept, whatever the context allows
Validate_AllowsAll(result, actionContext) == result

\* a string action the context does not allow is removed
Validate(result, actionContext) ==
    IF Truthy(result["action"]) /\ IsString(result["action"])
       /\ result["action"].s \notin getAllowedActionsForContext(actionContext)
    THEN [result EXCEPT !["action"] = Undefined]
    ELSE result

CannedResponse == <<"I", " ", "u", "n", "d", "e", "r", "s", "t", "a", "n", "d", ".", " ", "L", "e", "t", " ", "m", "e", " ", "t", "h", "i", "n", "k", " ", "a", "b", "o", "u", "t", " ", "t", "h", "e", " ", "b", "e", "s", "t", " ", "w", "a", "y", " ", "t", "o", " ", "h", "e", "l", "p", ".">>
NovaUpdate == <<"N", "o", "v", "a", " ", "U", "p", "d", "a", "t", "e">>
NovaSms == <<"n", "o", "v", "a", "-", "s", "m", "s">>
FallbackAddress == <<"s", "t", "e", "p", "h", "e", "n", "@", "v", "a", "l", "e", "n", "c", "e", "a", "p", "p", ".", "n", "e", "t">>
None == <<"n", "o", "n", "e">>

UsableResponse(result) == Truthy(result["response"]) /\ IsString(result["response"])

\* the send_email that delivers the response is added in the email context too
Enforce_AlwaysDelivers(result, actionContext, myNumber) ==
    IF ~Truthy(result["action"]) \/ result["action"] = Str(None)
    THEN LET response == IF UsableResponse(result) THEN result["response"]
                         ELSE Str(CannedResponse)
         IN [result EXCEPT !["response"] = response,
                           !["action"] = Str(SendEmail),
                           !["to"] = IF myNumber THEN Str(<<"1">> \o SmsGateway)
                                     ELSE Str(FallbackAddress),
                           !["subject"] = Str(NovaUpdate),
                           !["body"] = response,
                           !["account"] = Str(NovaSms)]
    ELSE result

\* without an action the decision is a reply: it gets a response, and outside
\* the email context the send_email that delivers it
Enforce(result, actionContext, myNumber) ==
    IF ~Truthy(result["action"]) \/ result["action"] = Str(None)
    THEN LET response == IF UsableResponse(result) THEN result["response"]
                         ELSE Str(CannedResponse)
         IN IF actionContext # EmailContext
            THEN [result EXCEPT !["response"] = response,
                                !["action"] = Str(SendEmail),
                                !["to"] = IF myNumber THEN Str(<<"1">> \o SmsGateway)
                                          ELSE Str(FallbackAddress),
                                !["subject"] = Str(NovaUpdate),
                                !["body"] = response,
                                !["account"] = Str(NovaSms)]
            ELSE [result EXCEPT !["response"] = response,
                                !["action"] = IF @ = Str(None) THEN Undefined ELSE @]
    ELSE result

\* text.replace('_', ' '): the first underscore only
RECURSIVE ReplaceUnderscore(_)
ReplaceUnderscore(text) ==
    IF text = <<>> THEN <<>>
    ELSE IF Head(text) = "_" THEN <<" ">> \o Tail(text)
    ELSE <<Head(text)>> \o ReplaceUnderscore(Tail(text))

\* what respond ends with: the decision it returns, or an error it throws
Decided(result) == [outcome |-> "returned", result |-> result, error |-> NoError]
Throws(error) == [outcome |-> "threw", result |-> NoPlan, error |-> error]
ReplaceNotAFunction == Error("result.action.replace is not a function")

\* the response is ensured; its default names the action
EnsureResponse(result) ==
    IF UsableResponse(result) THEN Decided(result)
    ELSE IF ~Truthy(result["action"])
         THEN Decided([result EXCEPT !["response"] = Str(CannedResponse)])
    ELSE IF ~IsString(result["action"]) THEN Throws(ReplaceNotAFunction)
    ELSE Decided([result EXCEPT !["response"] =
                     Str(<<"I", "'", "l", "l", " ", "h", "a", "n", "d", "l", "e", " ", "t", "h", "a", "t", " ">> \o ReplaceUnderscore(result["action"].s)
                         \o <<" ", "f", "o", "r", " ", "y", "o", "u", ".">>)])

\* respond from the model's message on
Normalize(content, actionContext, myNumber) ==
    EnsureResponse(Enforce(Validate(Flatten(Spread(safeJsonParse(content))), actionContext),
                           actionContext, myNumber))

\* the reasoning step between two calls of respond
IdleBrain == [pc |-> "idle", actionContext |-> NoText, myNumber |-> FALSE,
              content |-> NoContent, outcome |-> "none", result |-> NoPlan,
              error |-> NoError]

BrainUnchanged == UNCHANGED <<schedVars, executor, plan, xpc, xloc, calls, pipeVars>>

\* respond({ ..., actionContext }) up to its await of the model
Respond(actionContext, myNumber) ==
    /\ brain.pc = "idle"
    /\ brain' = [IdleBrain EXCEPT !.pc = "asked", !.actionContext = actionContext,
                                  !.myNumber = myNumber]
    /\ BrainUnchanged

\* the model answers with a message of this content; respond returns or throws
ModelAnswers(content) ==
    /\ brain.pc = "asked"
    /\ LET end == Normalize(content, brain.actionContext, brain.myNumber)
       IN brain' = [brain EXCEPT !.pc = "done", !.content = content,
                                 !.outcome = end.outcome, !.result = end.result,
                                 !.error = end.error]
    /\ BrainUnchanged

ModelUnreachable == [msg |-> "rejected", about |-> "chat.completions.create",
                     available |-> <<>>]

\* the call of the model rejects; respond throws that error
ModelRejects ==
    /\ brain.pc = "asked"
    /\ brain' = [brain EXCEPT !.pc = "done", !.outcome = "threw",
                              !.error = ModelUnreachable]
    /\ BrainUnchanged

\* the caller takes the decision or the error
BrainReturn ==
    /\ brain.pc = "done"
    /\ brain' = IdleBrain
    /\ BrainUnchanged

\* ----------------------------------------------------- the memory client
\* An array of the reasoning output, a property of a value (undefined on
\* anything that is no object with that property), Array.isArray.
Arr(items) == [t |-> "array", items |-> items]
Get(v, key) ==
    IF v.t = "object" /\ "fields" \in DOMAIN v
    THEN IF key \in DOMAIN v.fields THEN v.fields[key] ELSE Undefined
    ELSE Undefined
IsArray(v) == v.t = "array"
Items(v) == IF "items" \in DOMAIN v THEN v.items ELSE <<>>
Map(s, Op(_)) == [k \in 1 .. Len(s) |-> Op(s[k])]

MemoryKeys == {"add", "update", "delete"}
Delta(add, update, delete) == Obj([add |-> add, update |-> update, delete |-> delete])
Entry(id, text) == Obj([id |-> id, text |-> text])

\* normalizeMemoryPayload(memoryPayload) of the earlier reasoning step
KeepsText(item) == item.t = "string" /\ Trim(item.s) # <<>>
TrimText(item) == Str(Trim(item.s))
KeepsUpdate(item) ==
    /\ Truthy(item) /\ TypeOf(item) = "object"
    /\ Truthy(Get(item, "id")) /\ Truthy(Get(item, "text"))
StringEntry(item) == Entry(Str(ToText(Get(item, "id"))), Str(Trim(ToText(Get(item, "text")))))
normalizeMemoryPayload(memoryPayload) ==
    IF ~Truthy(memoryPayload) \/ TypeOf(memoryPayload) # "object"
    THEN Delta(Arr(<<>>), Arr(<<>>), Arr(<<>>))
    ELSE Delta(
        IF IsArray(Get(memoryPayload, "add"))
        THEN Arr(Map(SelectSeq(Items(Get(memoryPayload, "add")), KeepsText), TrimText))
        ELSE Arr(<<>>),
        IF IsArray(Get(memoryPayload, "update"))
        THEN Arr(Map(SelectSeq(Items(Get(memoryPayload, "update")), KeepsUpdate), StringEntry))
        ELSE Arr(<<>>),
        IF IsArray(Get(memoryPayload, "delete"))
        THEN Arr(Map(SelectSeq(Items(Get(memoryPayload, "delete")), KeepsText), TrimText))
        ELSE Arr(<<>>))

\* applyMemoryUpdates(delta = {}): the entries of one list of the delta, and
\* the call of the memory client an entry leads to, if any
MemoryPhases == <<"add", "update", "delete">>
NoCall == [fn |-> "none"]
Entries(delta, phase) ==
    IF IsArray(Get(delta, MemoryPhases[phase])) THEN Items(Get(delta, MemoryPhases[phase])) ELSE <<>>
MemoryCall(phase, entry) ==
    CASE phase = 1 ->
            IF entry.t # "string" \/ Trim(entry.s) = <<>> THEN NoCall
            ELSE [fn |-> "addMemory", id |-> Undefined, text |-> Str(Trim(entry.s))]
      [] phase = 2 ->
            IF ~Truthy(entry) \/ ~Truthy(Get(entry, "id")) \/ Get(entry, "text").t # "string"
            THEN NoCall
            ELSE IF Trim(Get(entry, "text").s) = <<>> THEN NoCall
            ELSE [fn |-> "updateMemory", id |-> Get(entry, "id"),
                  text |-> Str(Trim(Get(entry, "text").s))]
      [] phase = 3 ->
            IF ~Truthy(entry) THEN NoCall
            ELSE [fn |-> "deleteMemory", id |-> entry, text |-> Undefined]

\* the next entry at or after position i of list phase that leads to a call;
\* phase 4 when the lists are exhausted
RECURSIVE NextAwait(_, _, _)
NextAwait(delta, phase, i) ==
    IF phase > Len(MemoryPhases) THEN [phase |-> phase, i |-> 1]
    ELSE IF i > Len(Entries(delta, phase)) THEN NextAwait(delta, phase + 1, 1)
    ELSE IF MemoryCall(phase, Entries(delta, phase)[i]) = NoCall THEN NextAwait(delta, phase, i + 1)
    ELSE [phase |-> phase, i |-> i]

NoSummary == [added |-> <<>>, updated |-> <<>>, deleted |-> <<>>]
IdleMemory == [pc |-> "idle", delta |-> Undefined, phase |-> 1, i |-> 1,
               calls |-> <<>>, summary |-> NoSummary]

\* applyMemoryUpdates up to its first await of the memory client, or to its
\* return when nothing in the delta leads to a call
ApplyFrom(delta, phase, i, made, summary) ==
    LET at == NextAwait(delta, phase, i)
    IN IF at.phase > Len(MemoryPhases)
       THEN [pc |-> "done", delta |-> delta, phase |-> at.phase, i |-> at.i,
             calls |-> made, summary |-> summary]
       ELSE [pc |-> "await", delta |-> delta, phase |-> at.phase, i |-> at.i,
             calls |-> Append(made, MemoryCall(at.phase, Entries(delta, at.phase)[at.i])),
             summary |-> summary]
applyMemoryUpdates(delta) ==
    LET given == IF delta = Undefined THEN Obj(<<>>) ELSE delta
    IN IF ~Truthy(given) \/ TypeOf(given) # "object"
       THEN [IdleMemory EXCEPT !.pc = "done", !.delta = given]
       ELSE ApplyFrom(given, 1, 1, <<>>, NoSummary)

\* the entry of the summary a resolved call adds
Summarized(summary, phase, entry) ==
    CASE phase = 1 -> [summary EXCEPT !.added = Append(@, entry)]
      [] phase = 2 -> [summary EXCEPT !.updated = Append(@, Get(entry, "id"))]
      [] phase = 3 -> [summary EXCEPT !.deleted = Append(@, entry)]

MemoryUnchanged == UNCHANGED <<schedVars, executor, plan, xpc, xloc, calls, history, pipeline>>

\* runNovaPipeline hands the memory of the decision that respond returned to
\* applyMemoryUpdates
ApplyDecisionMemory ==
    /\ brain.pc = "done" /\ brain.outcome = "returned"
    /\ memory.pc = "idle"
    /\ memory' = applyMemoryUpdates(brain.result["memory"])
    /\ UNCHANGED brain
    /\ MemoryUnchanged

\* the awaited call of the memory client resolves: the entry is summarized and
\* the loop goes on
MemoryResolves ==
    /\ memory.pc = "await"
    /\ UNCHANGED brain
    /\ MemoryUnchanged
    /\ memory' = ApplyFrom(memory.delta, memory.phase, memory.i + 1, memory.calls,
                           Summarized(memory.summary, memory.phase,
                                      Entries(memory.delta, memory.phase)[memory.i]))

\* the awaited call rejects: the catch logs it and the loop goes on
MemoryRejects ==
    /\ memory.pc = "await"
    /\ UNCHANGED brain
    /\ MemoryUnchanged
    /\ memory' = ApplyFrom(memory.delta, memory.phase, memory.i + 1, memory.calls,
                           memory.summary)

\* applyMemoryUpdates returns its summary; the pipeline goes on
MemoryReturn ==
    /\ memory.pc = "done"
    /\ memory' = IdleMemory
    /\ brain' = IdleBrain
    /\ MemoryUnchanged

\* ----------------------------------------------- the conversation history
\* ConversationHistory: the value under nova_conversation_history (absent, or
\* the JSON text of a list), the list kept in memory without Redis, and the
\* call of addToConversationHistory in flight. added lists the entries of the
\* calls that returned; faults counts the rejections of the store so far.
maxHistoryLength == 6
Absent == [kind |-> "absent"]
Stringify(list) == [kind |-> "json", of |-> list]
Parse(text) == text.of
NoHistory == [constructed |-> FALSE, redisAvailable |-> FALSE, stored |-> Absent,
              memoryHistory |-> <<>>, pc |-> "idle", n |-> 0, reply |-> "none",
              list |-> <<>>, pushed |-> <<>>, threw |-> FALSE,
              calls |-> 0, added |-> <<>>, faults |-> 0, broken |-> FALSE]

HistoryUnchanged ==
    UNCHANGED <<schedVars, executor, plan, xpc, xloc, calls, brain, memory, pipeline>>

\* new ConversationHistory(), with or without Redis configured
NewConversationHistory(redisAvailable) ==
    /\ ~history.constructed
    /\ history' = [NoHistory EXCEPT !.constructed = TRUE, !.redisAvailable = redisAvailable]
    /\ HistoryUnchanged

\* what a reply can be: a text, an object with a message, an object without,
\* null
Replies == {"string", "message", "object", "null"}
\* responseText of a reply; reading .message of null throws
ResponseText(n, reply) ==
    CASE reply = "string" -> [of |-> n, as |-> "text"]
      [] reply = "message" -> [of |-> n, as |-> "message"]
      [] reply = "object" -> [of |-> n, as |-> "json"]
Exchange(n, reply) ==
    <<[role |-> "user", content |-> [of |-> n, as |-> "text"]],
      [role |-> "assistant", content |-> ResponseText(n, reply)]>>

\* (the cut keeping the oldest entries instead)
Slice_KeepsOldest(list) ==
    IF Len(list) > maxHistoryLength THEN SubSeq(list, 1, maxHistoryLength) ELSE list

\* history.slice(-maxHistoryLength) when the list is longer
Slice(list) ==
    IF Len(list) > maxHistoryLength
    THEN SubSeq(list, Len(list) - maxHistoryLength + 1, Len(list))
    ELSE list

\* the call returns, and what it pushed counts as added; the call rejects
Returned(h) ==
    [h EXCEPT !.pc = "idle", !.threw = FALSE, !.added = @ \o h.pushed,
              !.n = 0, !.reply = "none", !.list = <<>>, !.pushed = <<>>]
Threw(h) ==
    [h EXCEPT !.pc = "idle", !.threw = TRUE,
              !.n = 0, !.reply = "none", !.list = <<>>, !.pushed = <<>>]

\* addToConversationHistory from the list getConversationHistory returned: the
\* entries are pushed, the list is cut, and it is kept or sent to the store;
\* a reply that cannot be read goes to the catch, which resets the history.
\* Called by itself (no reply), getConversationHistory returns the list.
Push(h, list) ==
    IF h.reply = "none" THEN Returned(h)
    ELSE IF h.reply = "null"
    THEN IF h.redisAvailable
         THEN [h EXCEPT !.pc = "reset", !.broken = TRUE]
         ELSE Returned([h EXCEPT !.memoryHistory = <<>>, !.broken = TRUE])
    ELSE LET cut == Slice(list \o Exchange(h.n, h.reply))
         IN IF h.redisAvailable
            THEN [h EXCEPT !.pc = "set", !.list = cut, !.pushed = Exchange(h.n, h.reply)]
            ELSE Returned([h EXCEPT !.memoryHistory = cut, !.pushed = Exchange(h.n, h.reply)])

\* getConversationHistory() up to its await of the store; without Redis, to
\* its return
GetHistory(h) ==
    IF h.redisAvailable THEN [h EXCEPT !.pc = "get"] ELSE Push(h, h.memoryHistory)
getConversationHistory ==
    /\ history.constructed /\ history.pc = "idle"
    /\ history' = GetHistory([history EXCEPT !.threw = FALSE])
    /\ HistoryUnchanged

\* addToConversationHistory(userInput, novaResponse) up to its first await of
\* the store; without Redis, to its return
AddToHistory(h, reply) ==
    GetHistory([h EXCEPT !.calls = @ + 1, !.n = h.calls + 1, !.reply = reply])
addToConversationHistory(reply) ==
    /\ history.constructed /\ history.pc = "idle"
    /\ history.calls < MaxExchanges
    /\ history' = AddToHistory(history, reply)
    /\ HistoryUnchanged

\* redis.get resolves, with the text or with the list the client made of it
GetResolves ==
    /\ history.pc = "get"
    /\ history' = Push(history, IF history.stored = Absent THEN <<>> ELSE Parse(history.stored))
    /\ HistoryUnchanged

\* redis.get rejects: getConversationHistory deletes the key
GetRejects ==
    /\ history.pc = "get"
    /\ history.faults < MaxHistoryFaults
    /\ history' = [history EXCEPT !.pc = "get_del", !.faults = @ + 1]
    /\ HistoryUnchanged

\* redis.set resolves
SetResolves ==
    /\ history.pc = "set"
    /\ history' = Returned([history EXCEPT !.stored = Stringify(history.list)])
    /\ HistoryUnchanged

\* redis.set rejects: the catch deletes the key
SetRejects ==
    /\ history.pc = "set"
    /\ history.faults < MaxHistoryFaults
    /\ history' = [history EXCEPT !.pc = "reset", !.faults = @ + 1]
    /\ HistoryUnchanged

\* redis.del resolves: in getConversationHistory the call goes on with an
\* empty list, in the catch of addToConversationHistory it returns
DelResolves ==
    /\ history.pc \in {"get_del", "reset"}
    /\ history' = IF history.pc = "get_del"
                  THEN Push([history EXCEPT !.stored = Absent], <<>>)
                  ELSE Returned([history EXCEPT !.stored = Absent])
    /\ HistoryUnchanged

\* redis.del rejects: getConversationHistory rejects into the catch of
\* addToConversationHistory, whose own redis.del rejecting rejects the call
DelRejects ==
    /\ history.pc \in {"get_del", "reset"}
    /\ history.faults < MaxHistoryFaults
    /\ history' = IF history.pc = "get_del" /\ history.reply # "none"
                  THEN [history EXCEPT !.pc = "reset", !.faults = @ + 1]
                  ELSE Threw([history EXCEPT !.faults = @ + 1])
    /\ HistoryUnchanged

\* the entries getConversationHistory returns between two calls
StoredHistory ==
    IF history.redisAvailable
    THEN IF history.stored = Absent THEN <<>> ELSE Parse(history.stored)
    ELSE history.memoryHistory

\* ----------------------------------------------------------- the pipeline
\* index.js: the services built at startup, the inbound event being handled,
\* and the position of runNovaPipeline and of its caller. executions lists
\* what each call of executeAction was handed and did.
IdlePipeline == [booted |-> FALSE, variant |-> "none", myNumber |-> Undefined,
                 entry |-> "none", pc |-> "idle", from |-> Undefined,
                 actionContext |-> NoText, invoked |-> FALSE, tools |-> 0,
                 error |-> "none", result |-> "none", thrown |-> "none",
                 executions |-> <<>>,
                 responded |-> FALSE, events |-> 0]

\* the awaits of runNovaPipeline in their order, by which an error is named
Awaits == <<"getConversationHistory", "generateMemoryQueries", "fetchRelevantMemories",
            "curateMemories", "respond", "applyMemoryUpdates", "addToConversationHistory",
            "executeAction", "runAssistantPipeline">>
AwaitNo(name) == CHOOSE k \in 1 .. Len(Awaits) : Awaits[k] = name

\* the startup of index.js: the services are built, with or without the
\* owner's number in the environment; the reasoning is done by NovaBrain or
\* by the assistant
Boot(variant, services, myNumber, redisAvailable) ==
    /\ ~pipeline.booted
    /\ ~executor.constructed /\ ~history.constructed
    /\ pipeline' = [IdlePipeline EXCEPT !.booted = TRUE, !.variant = variant,
                                        !.myNumber = myNumber]
    /\ executor' = [constructed |-> TRUE, accounts |-> <<>>, ownerNumber |-> Truthy(myNumber),
                    emailService |-> services.emailService, memory |-> services.memory,
                    schedulingService |-> services.schedulingService]
    /\ history' = [NoHistory EXCEPT !.constructed = TRUE, !.redisAvailable = redisAvailable]
    /\ UNCHANGED <<schedVars, plan, xpc, xloc, calls, brain, memory>>

\* `${process.env.MY_NUMBER}@msg.fi.google.com`
Template(number) ==
    (IF number = Undefined THEN <<"u", "n", "d", "e", "f", "i", "n", "e", "d">> ELSE number.s)
    \o SmsGateway
NovaError == <<"N", "o", "v", "a", " ", "E", "r", "r", "o", "r">>
Snag == <<"s", "n", "a", "g", " ">>
\* the notice the catch of runNovaPipeline hands to executeAction
NoticePlan(error) ==
    [NoPlan EXCEPT !["action"] = Str(SendEmail), !["to"] = Str(Template(pipeline.myNumber)),
                   !["subject"] = Str(NovaError), !["body"] = Str(Snag \o DigitsOf(AwaitNo(error))),
                   !["account"] = Str(NovaSms)]

\* the catch of runNovaPipeline: the error is kept and the notice handed to
\* executeAction
Caught(p, error) == [p EXCEPT !.pc = "notify", !.error = error]

\* runNovaPipeline is called: blank input throws before the try; otherwise
\* the first await is reached
Started(p, blank, actionContext) ==
    LET q == [p EXCEPT !.invoked = TRUE, !.actionContext = actionContext]
    IN IF blank THEN [q EXCEPT !.pc = "thrown", !.error = "blank input", !.result = "threw",
                               !.thrown = "blank input"]
       ELSE IF p.variant = "brain" THEN [q EXCEPT !.pc = "getConversationHistory"]
       ELSE [q EXCEPT !.pc = "runAssistantPipeline"]
\* what the first await of runNovaPipeline does to the conversation history
StartedHistory(p, blank) ==
    IF ~blank /\ p.variant = "brain" THEN GetHistory([history EXCEPT !.threw = FALSE])
    ELSE history

\* a new inbound event: what the last one left is cleared
Event(entry, from) ==
    [IdlePipeline EXCEPT !.booted = TRUE, !.variant = pipeline.variant,
                         !.myNumber = pipeline.myNumber, !.entry = entry, !.from = from,
                         !.events = pipeline.events + 1]
Accepting ==
    /\ pipeline.booted /\ pipeline.pc \in {"idle", "responded", "done"}
    /\ pipeline.events < MaxEvents
    /\ history.pc = "idle" /\ xpc = "idle" /\ memory.pc = "idle"

\* String.prototype.replace(pattern, ''): the first occurrence goes, wherever
\* it is
RECURSIVE RemoveFirst(_, _)
RemoveFirst(s, w) ==
    IF s = <<>> THEN <<>>
    ELSE IF MatchAt(s, w, 1) THEN SubSeq(s, Len(w) + 1, Len(s))
    ELSE <<Head(s)>> \o RemoveFirst(Tail(s), w)
WhatsappPrefix == <<"w", "h", "a", "t", "s", "a", "p", "p", ":">>

\* POST /sms and POST /whatsapp up to the first await of runNovaPipeline, or to
\* the empty response for a sender that is not the owner
Webhook(route, from, blank) ==
    /\ Accepting /\ pipeline.variant = "brain"
    /\ LET fromNumber == IF from = Undefined THEN Undefined
                         ELSE Str(RemoveFirst(from.s, WhatsappPrefix))
           p == Event(route, from)
       IN IF fromNumber # pipeline.myNumber
          THEN /\ pipeline' = [p EXCEPT !.pc = "responded", !.responded = TRUE]
               /\ UNCHANGED history
          ELSE /\ pipeline' = Started(p, blank, GeneralContext)
               /\ history' = StartedHistory(p, blank)
    /\ brain' = IdleBrain
    /\ UNCHANGED <<schedVars, executor, plan, xpc, xloc, calls, memory>>

\* handleIncomingEmail up to the first await of runNovaPipeline; the assistant
\* build treats mail to the nova-sms account as a direct message
HandleIncomingEmail(direct) ==
    /\ Accepting
    /\ direct => pipeline.variant = "assistant"
    /\ LET p == Event("email", Undefined)
       IN /\ pipeline' = Started(p, FALSE, IF direct THEN GeneralContext ELSE EmailContext)
          /\ history' = StartedHistory(p, FALSE)
    /\ brain' = IdleBrain
    /\ UNCHANGED <<schedVars, executor, plan, xpc, xloc, calls, memory>>

PipelineUnchanged == UNCHANGED <<schedVars, executor, plan, xpc, xloc, calls, brain, memory, history>>

\* getConversationHistory has settled
HistoryRead ==
    /\ pipeline.pc = "getConversationHistory" /\ history.pc = "idle"
    /\ pipeline' = IF history.threw THEN Caught(pipeline, "getConversationHistory")
                   ELSE [pipeline EXCEPT !.pc = "generateMemoryQueries"]
    /\ PipelineUnchanged

\* generateMemoryQueries, fetchRelevantMemories or curateMemories resolves;
\* after the last, respond is called
AwaitResolves ==
    /\ pipeline.pc \in {"generateMemoryQueries", "fetchRelevantMemories", "curateMemories"}
    /\ pipeline' = [pipeline EXCEPT !.pc = Awaits[AwaitNo(@) + 1]]
    /\ brain' = IF pipeline.pc = "curateMemories"
                THEN [IdleBrain EXCEPT !.pc = "asked", !.actionContext = pipeline.actionContext,
                                       !.myNumber = Truthy(pipeline.myNumber)]
                ELSE brain
    /\ UNCHANGED <<schedVars, executor, plan, xpc, xloc, calls, memory, history>>

\* generateMemoryQueries or curateMemories rejects (fetchRelevantMemories
\* catches what its searches throw)
AwaitRejects ==
    /\ pipeline.pc \in {"generateMemoryQueries", "curateMemories"}
    /\ pipeline' = Caught(pipeline, pipeline.pc)
    /\ PipelineUnchanged

\* respond has settled: its error is caught, or the memory of its decision is
\* handed to applyMemoryUpdates
Responded ==
    /\ pipeline.pc = "respond" /\ brain.pc = "done"
    /\ IF brain.outcome = "threw"
       THEN pipeline' = Caught(pipeline, "respond") /\ UNCHANGED memory
       ELSE /\ pipeline' = [pipeline EXCEPT !.pc = "applyMemoryUpdates"]
            /\ memory' = applyMemoryUpdates(brain.result["memory"])
    /\ UNCHANGED <<schedVars, executor, plan, xpc, xloc, calls, brain, history>>

\* applyMemoryUpdates has returned: the exchange is added to the history
MemoryApplied ==
    /\ pipeline.pc = "applyMemoryUpdates" /\ memory.pc = "done"
    /\ pipeline' = [pipeline EXCEPT !.pc = "addToConversationHistory"]
    /\ memory' = IdleMemory
    /\ history' = AddToHistory(history, "string")
    /\ UNCHANGED <<schedVars, executor, plan, xpc, xloc, calls, brain>>

\* addToConversationHistory has settled: its error is caught, or the decision
\* is handed to executeAction
HistoryAdded ==
    /\ pipeline.pc = "addToConversationHistory" /\ history.pc = "idle"
    /\ IF history.threw
       THEN pipeline' = Caught(pipeline, "addToConversationHistory") /\ UNCHANGED plan
       ELSE /\ pipeline' = [pipeline EXCEPT !.pc = "executeAction"]
            /\ plan' = brain.result
    /\ UNCHANGED <<schedVars, executor, xpc, xloc, calls, brain, memory, history>>

\* executeAction called with what it was handed
Executes ==
    /\ pipeline.pc \in {"executeAction", "notifying", "tool", "webhook_notify"}
    /\ ExecuteAction

\* what a call of executeAction was handed and did
Execution == [for |-> pipeline.pc, plan |-> plan, calls |-> calls, outcome |-> xloc.outcome,
              actionName |-> xloc.actionName, trail |-> xloc.trail]
\* executeAction has settled; the executor is free again
Settled(next) ==
    /\ xpc = "done"
    /\ pipeline' = [next EXCEPT !.executions = Append(@, Execution)]
    /\ xpc' = "idle"
    /\ xloc' = IdleExec
    /\ plan' = NoPlan
    /\ calls' = <<>>
    /\ UNCHANGED <<schedVars, executor, brain, memory, history>>

\* executeAction(response) has settled: runNovaPipeline returns, or catches
Executed ==
    /\ pipeline.pc = "executeAction"
    /\ Settled(IF xloc.outcome = "threw" THEN Caught(pipeline, "executeAction")
               ELSE [pipeline EXCEPT !.pc = "returned", !.result = "returned"])

\* the catch of runNovaPipeline hands the notice to executeAction
Notify ==
    /\ pipeline.pc = "notify" /\ xpc = "idle"
    /\ pipeline' = [pipeline EXCEPT !.pc = "notifying"]
    /\ plan' = NoticePlan(pipeline.error)
    /\ UNCHANGED <<schedVars, executor, xpc, xloc, calls, brain, memory, history>>

\* (the catch letting a failed notice take the place of the error)
Rethrown_NoticeFailure(p) ==
    [p EXCEPT !.pc = "thrown", !.result = "threw",
              !.thrown = IF \E k \in 1 .. Len(xloc.trail) : xloc.trail[k] = "failed"
                         THEN "notice" ELSE p.error]

\* throw error: the error caught is thrown to the caller
Rethrown(p) == [p EXCEPT !.pc = "thrown", !.result = "threw", !.thrown = p.error]

\* the hand-over of the notice has settled, resolved or rejected (what it
\* rejects with is logged)
Notified ==
    /\ pipeline.pc = "notifying"
    /\ Settled(Rethrown(pipeline))

\* runAssistantPipeline: one of its calls of the assistant rejects, or the
\* arguments of a tool call are no JSON
AssistantRejects ==
    /\ pipeline.pc = "runAssistantPipeline"
    /\ pipeline' = Caught(pipeline, "runAssistantPipeline")
    /\ PipelineUnchanged

\* the run requires a tool: the tool call is mapped to a plan and handed to
\* executeAction
ToolNames == {CheckEmail, MarkSpam, <<"n", "o", "t", "i", "f", "y", "_", "o", "w", "n", "e", "r">>}
ToolCall(toolName) ==
    /\ pipeline.pc = "runAssistantPipeline" /\ xpc = "idle"
    /\ pipeline.tools < MaxToolCalls
    /\ pipeline' = [pipeline EXCEPT !.pc = "tool", !.tools = @ + 1]
    /\ plan' = [NoPlan EXCEPT !["action"] = Str(toolName)]
    /\ UNCHANGED <<schedVars, executor, xpc, xloc, calls, brain, memory, history>>

\* the tool has run; what it threw is caught and reported as its output
ToolExecuted ==
    /\ pipeline.pc = "tool"
    /\ Settled([pipeline EXCEPT !.pc = "runAssistantPipeline"])

\* the run completes and the last message of the assistant is returned
AssistantReturns ==
    /\ pipeline.pc = "runAssistantPipeline"
    /\ pipeline' = [pipeline EXCEPT !.pc = "returned", !.result = "returned"]
    /\ PipelineUnchanged

\* the plan the catch of the webhook hands to executeAction
SendSms == <<"s", "e", "n", "d", "_", "s", "m", "s">>
SystemError == <<"S", "y", "s", "t", "e", "m", " ", "e", "r", "r", "o", "r">>
SmsPlan == [NoPlan EXCEPT !["action"] = Str(SendSms), !["message"] = Str(SystemError)]

\* runNovaPipeline has settled: the webhook hands its own notice to
\* executeAction when it threw, and answers; handleIncomingEmail logs
CallerResumes ==
    /\ pipeline.pc \in {"returned", "thrown"} /\ xpc = "idle"
    /\ IF pipeline.entry = "email"
       THEN pipeline' = [pipeline EXCEPT !.pc = "done"] /\ UNCHANGED plan
       ELSE IF pipeline.pc = "thrown"
            THEN pipeline' = [pipeline EXCEPT !.pc = "webhook_notify"] /\ plan' = SmsPlan
            ELSE pipeline' = [pipeline EXCEPT !.pc = "responded", !.responded = TRUE]
                 /\ UNCHANGED plan
    /\ UNCHANGED <<schedVars, executor, xpc, xloc, calls, brain, memory, history>>

\* the hand-over of the webhook's notice has settled: the empty response
WebhookResponds ==
    /\ pipeline.pc = "webhook_notify"
    /\ Settled([pipeline EXCEPT !.pc = "responded", !.responded = TRUE])

\* ------------------------------------------------------------- the system
Init ==
    /\ redis \in BOOLEAN
    /\ now = StartTime
    /\ mergeWindowMs = DefaultMergeWindowMs
    /\ index = [id \in Ids |-> NoScore]
    /\ store = [id \in Ids |-> Null]
    /\ used = {}
    /\ tainted = {}
    /\ pc = [p \in Procs |-> "idle"]
    /\ loc = [p \in Procs |-> IdleLoc]
    /\ fired = [id \in Ids |-> 0]
    /\ ops = 0
    /\ ticks = 0
    /\ faults = 0
    /\ executor = NewExecutor
    /\ plan = NoPlan
    /\ xpc = "idle"
    /\ xloc = IdleExec
    /\ calls = <<>>
    /\ brain = IdleBrain
    /\ memory = IdleMemory
    /\ history = NoHistory
    /\ pipeline = IdlePipeline

AllIdle == \A p \in Procs : pc[p] = "idle"

\* an operation is called
Call(p, Faulty) ==
    \/ \E delayMs \in Delays : ScheduleWakeup(p, TaskOf(ops + 1), delayMs)
    \/ \E fault \in Faulty : ProcessWakeups(p, fault)
    \/ \E taskId \in Ids : CancelReminder(p, taskId)
    \/ GetPendingReminders(p)

\* the steps an operation in flight takes between its suspension points
Step(p, Faulty) ==
    \/ FindNearbyGet(p)
    \/ MergeGet(p)
    \/ MergeZrem(p)
    \/ MergeZadd(p)
    \/ MergeSet(p)
    \/ CreateSet(p)
    \/ CreateZadd(p)
    \/ \E fault \in Faulty : SweepGet(p, fault)
    \/ \E throws \in BOOLEAN : SweepCallback(p, throws)
    \/ \E fault \in Faulty : SweepZrem(p, fault)
    \/ \E fault \in Faulty : SweepDel(p, fault)
    \/ CancelDel(p)
    \/ PendingGet(p)
    \/ Return(p)

\* the sweep's clean-up of a record that does not parse
CorruptStep(p, Faulty) ==
    \/ \E fault \in Faulty : SweepCorruptZrem(p, fault)
    \/ \E fault \in Faulty : SweepCorruptDel(p, fault)

Environment ==
    \/ \E hours \in WindowHours : ops < MaxOps /\ SetMergeWindow(hours)
    \/ \E d \in TickSteps : Tick(d)
    \/ \E delayMs \in LegacyDelays : LegacyScheduleWakeup(LegacyTask, delayMs)
    \/ \E taskId \in Ids, damaged \in {Corrupt, BadType} : StoreCorruption(taskId, damaged)

\* One operation at a time, each call awaited before the next is made; the store
\* may fail under the sweep and may hold legacy or damaged records.
NextSeq == \/ AllIdle /\ ops < MaxOps /\ Call(SeqProc, BOOLEAN)
           \/ Step(SeqProc, BOOLEAN)
           \/ CorruptStep(SeqProc, BOOLEAN)
           \/ AllIdle /\ Environment

SpecSeq == Init /\ [][NextSeq]_vars

\* Operations of the timer and of callers interleave at their suspension points;
\* the store is reliable and holds only what the service wrote.
Next == \/ \E p \in Procs : (ops < MaxConcOps /\ Call(p, {FALSE})) \/ Step(p, {FALSE})
        \/ \E d \in TickSteps : Tick(d)

Spec == Init /\ [][Next]_vars

\* the steps of a scheduleWakeup in flight
ScheduleStep(p) ==
    \/ FindNearbyGet(p)
    \/ MergeGet(p)
    \/ MergeZrem(p)
    \/ MergeZadd(p)
    \/ MergeSet(p)
    \/ CreateSet(p)
    \/ CreateZadd(p)
    \/ Return(p)

\* Callers whose scheduleWakeup calls interleave at their suspension points,
\* nothing else running; the store is reliable.
NextRace ==
    \/ \E p \in Procs :
          \/ ops < MaxRaceOps /\ \E delayMs \in Delays :
                                   ScheduleWakeup(p, TaskOf(ops + 1), delayMs)
          \/ ScheduleStep(p)
    \/ \E d \in TickSteps : Tick(d)

SpecRace == Init /\ [][NextRace]_vars

\* the steps of a sweep whose store calls succeed and whose callback resolves
SweepStep(p) ==
    \/ SweepGet(p, FALSE)
    \/ SweepCallback(p, FALSE)
    \/ SweepZrem(p, FALSE)
    \/ SweepDel(p, FALSE)

\* The sweep timer fires while callers schedule: scheduleWakeup calls and
\* processWakeups runs interleave at their suspension points, nothing is
\* cancelled; the store is reliable.
NextFiring ==
    \/ \E p \in Procs :
          \/ ops < MaxConcOps /\ \E delayMs \in Delays :
                                   ScheduleWakeup(p, TaskOf(ops + 1), delayMs)
          \/ ops < MaxConcOps /\ ProcessWakeups(p, FALSE)
          \/ ScheduleStep(p)
          \/ SweepStep(p)
    \/ \E d \in TickSteps : Tick(d)

SpecFiring == Init /\ [][NextFiring]_vars

\* delays of reminders due now or in a millisecond
SoonDelays == {0, 1}

\* Callers schedule, cancel, list and the sweep timer fires, long enough for
\* a reminder to be created, merged into, cancelled and looked for again,
\* all within one millisecond; the store is reliable.
NextCancel ==
    \E p \in Procs :
       \/ ops < MaxCancelOps /\ \E delayMs \in SoonDelays :
                                   ScheduleWakeup(p, TaskOf(ops + 1), delayMs)
       \/ ops < MaxCancelOps /\ ProcessWakeups(p, FALSE)
       \/ ops < MaxCancelOps /\ \E taskId \in Ids : CancelReminder(p, taskId)
       \/ ops < MaxCancelOps /\ GetPendingReminders(p)
       \/ Step(p, {FALSE})

SpecCancel == Init /\ [][NextCancel]_vars

\* -------------------------------------------------------- the plans tried
WorkId == <<"w", "o", "r", "k">>

\* the values tried under an identifier key: a number, a padded integer, a
\* blank string, a padded word, an address, a subject line
IdentifierValues == {Num(42), Str(<<" ", "7", " ">>), Str(<<" ">>), Str(<<" ", "x", " ">>),
                     Str(<<"a", "@", "b">>), Str(<<"r", "e", ":", " ", "x">>)}
\* under a criterion alias: a number, a blank string, a padded word, an address
AliasValues == {Num(42), Str(<<" ">>), Str(<<" ", "x", " ">>), Str(<<"a", "@", "b">>)}
\* under response and message: a text that would match as a search term
ReplyValues == {Str(<<" ", "x", " ">>)}

ValuesFor(key) == IF key \in IdentifierKeys THEN IdentifierValues
                  ELSE IF key \in ReplyKeys THEN ReplyValues
                  ELSE AliasValues

Populated(pl) == {k \in PlanKeys : pl[k] # Undefined}

\* The reasoning step composes the plan it will hand over: one more key gets a
\* value (at most MaxFields keys of a plan that resolveEmailIdentifier reads).
ComposePlan(key, value) ==
    /\ xpc = "idle"
    /\ IsPlanObject(plan)
    /\ plan[key] = Undefined
    /\ key \in ControlKeys \/ Cardinality(Populated(plan) \ ControlKeys) < MaxFields
    /\ plan' = [plan EXCEPT ![key] = value]
    /\ UNCHANGED <<xpc, xloc, calls>>
    /\ ExecUnchanged

\* resolveEmailIdentifier called with one composed plan after another
NextResolve ==
    \/ \E key \in IdentifierKeys \cup AliasKeys \cup ReplyKeys :
          \E value \in ValuesFor(key) : ComposePlan(key, value)
    \/ ResolveEmailIdentifier(WorkId)
    \/ \E directResults \in SearchResults : SearchReturns(directResults)
    \/ SearchRejects
    \/ ExecReturn

\* the executor beside a scheduler whose store is configured
InitExec == Init /\ redis

SpecResolve == InitExec /\ [][NextResolve]_vars

\* ------------------------------------------------- the dispatcher's inputs
\* the account configurations tried: none, and two accounts of which the
\* second has a capitalised id and no email
AccountConfigs == {<<>>, <<Account(WorkId, <<"w", "@", "x">>), Account(<<"H", "o", "m", "e">>, NoText)>>}

\* the values tried under action: the handlers modelled, one of them padded,
\* an unknown name, a blank string and a number
ActionValues ==
    {Str(a) : a \in {CheckEmail, SearchEmail, MarkSpam, MarkRead, MarkUnread, DeleteEmail,
                     MoveEmail, UnsubscribeEmail, CheckCalendar, WebSearch,
                     <<" ", "m", "a", "r", "k", "_", "s", "p", "a", "m", " ">>, <<"f", "l", "y">>, <<" ">>}}
    \cup {Num(1)}

\* under account: an id, an email in capitals and padded, an id in another
\* case, an unknown name, a blank string, a number
AccountValues == {Str(WorkId), Str(<<" ", "W", "@", "X", " ">>), Str(<<"h", "o", "m", "e">>), Str(<<"n", "o", "p", "e">>), Str(<<" ">>), Num(42)}

ExecKeys == {"action", "account", "folder", "emailId", "sender", "subject", "response"}

ExecValuesFor(key) ==
    CASE key = "action" -> ActionValues
      [] key = "account" -> AccountValues
      [] key = "folder" -> {Str(<<"S", "p", "a", "m">>)}
      [] key = "emailId" -> {Num(42), Str(<<" ", "x", " ">>)}
      [] key = "sender" -> {Str(<<" ", "x", " ">>), Str(<<" ">>)}
      [] key \in {"subject", "response"} -> {Str(<<" ", "x", " ">>)}

\* the collaborators the executor is built with: all of them, or none
AllServices == [emailService |-> TRUE, memory |-> TRUE, schedulingService |-> TRUE]
NoServices == [emailService |-> FALSE, memory |-> FALSE, schedulingService |-> FALSE]
ServiceConfigs == {AllServices, NoServices}

\* executeAction, and resolveEmailIdentifier on its own, called with one
\* composed plan after another on an executor built with some configuration
NextExec ==
    \/ \E accounts \in AccountConfigs, ownerNumber \in BOOLEAN :
          Constructor(AllServices, accounts, ownerNumber)
    \/ \E key \in ExecKeys : \E value \in ExecValuesFor(key) : ComposePlan(key, value)
    \/ ExecuteAction
    \/ ResolveEmailIdentifier(WorkId)
    \/ \E directResults \in SearchResults : SearchReturns(directResults)
    \/ SearchRejects
    \/ \E info \in UnsubscribeInfos : MailboxReturns(info)
    \/ \E seqnos \in SearchResults : SearchEmailReturns(seqnos)
    \/ RecentReturns
    \/ CallRejects
    \/ NotifySettles
    \/ ExecReturn

SpecExec == InitExec /\ [][NextExec]_vars

\* ------------------------------------- plans that send, schedule and record
\* the keys tried for send_email, schedule_reminder and add_task
DispatchKeys == {"action", "to", "subject", "body", "response", "task", "when"}

\* under action: the three handlers, send_email padded, a blank string, a number
DispatchActions == {Str(SendEmail), Str(<<" ", "s", "e", "n", "d", "_", "e", "m", "a", "i", "l", " ">>), Str(ScheduleReminder), Str(AddTask),
                    Str(<<" ">>), Num(1)}
\* under to: an address, an address at the owner's SMS gateway, an address object
Recipients == {Str(<<"a", "@", "b">>), Str(<<"1">> \o SmsGateway), JsObject}
\* under when: a delay with a unit and a fraction, bare minutes, no delay at all
Whens == {Str(<<"1", ".", "5", " ", "h", "o", "u", "r", "s">>), Str(<<"9", "0">>), Str(<<"s", "o", "o", "n">>)}

DispatchValuesFor(key) ==
    CASE key = "action" -> DispatchActions
      [] key = "to" -> Recipients
      [] key = "when" -> Whens
      [] key \in {"subject", "body", "response", "task"} -> {Str(<<" ", "x", " ">>)}

\* The reasoning step composes a plan of any number of these keys.
ComposeField(key, value) ==
    /\ xpc = "idle"
    /\ IsPlanObject(plan)
    /\ plan[key] = Undefined
    /\ plan' = [plan EXCEPT ![key] = value]
    /\ UNCHANGED <<xpc, xloc, calls>>
    /\ ExecUnchanged

\* what a caller can hand to executeAction instead of an object
NonObjectPlans == {JsNull, Num(7), Str(<<"h", "i">>)}

\* The caller hands over a value that is no object.
HandOver(value) ==
    /\ xpc = "idle"
    /\ plan = NoPlan
    /\ plan' = value
    /\ UNCHANGED <<xpc, xloc, calls>>
    /\ ExecUnchanged

\* executeAction called with one plan or value after another on an executor
\* built with or without its collaborators
NextDispatch ==
    \/ \E services \in ServiceConfigs, ownerNumber \in BOOLEAN :
          Constructor(services, <<>>, ownerNumber)
    \/ \E key \in DispatchKeys : \E value \in DispatchValuesFor(key) : ComposeField(key, value)
    \/ \E value \in NonObjectPlans : HandOver(value)
    \/ ExecuteAction
    \/ SendReturns
    \/ \E id \in WakeupIds : ScheduleReturns(id)
    \/ AddTaskReturns
    \/ CallRejects
    \/ NotifySettles
    \/ ExecReturn

SpecDispatch == InitExec /\ [][NextDispatch]_vars

\* ------------------------------------------------ the reasoning outputs tried
\* the contexts respond is called with: the three of the pipeline, the alias
\* of the email context, and the email context capitalised
Contexts == {GeneralContext, EmailContext, ErrorContext, IncomingEmailContext,
             <<"E", "m", "a", "i", "l">>}

\* under action: nothing, null, an empty string, names in and out of the
\* allowed sets, 'none', an unknown name, a padded name, a number, true, an
\* array, and objects: a nested action with a parameter, a nested action with
\* a response of its own, a nested action that is a number, an empty object
RawActions ==
    {Undefined, JsNull, Str(<<>>), Str(DeleteEmail), Str(CheckEmail), Str(SendEmail),
     Str(None), Str(<<"f", "l", "y">>), Str(<<" ">> \o MarkSpam \o <<" ">>),
     Num(5), JsTrue, JsArray,
     Obj([NoPlan EXCEPT !["action"] = Str(MarkSpam), !["emailId"] = Num(42)]),
     Obj([NoPlan EXCEPT !["action"] = Str(CheckEmail), !["response"] = Str(<<"i", "n">>)]),
     Obj([NoPlan EXCEPT !["action"] = Num(5)]),
     Obj(NoPlan)}
\* under response: nothing, a text, an empty string, a number, null
RawResponses == {Undefined, Str(<<"o", "k">>), Str(<<>>), Num(7), JsNull}

RawObjects ==
    {[NoPlan EXCEPT !["action"] = action, !["response"] = response] :
        action \in RawActions, response \in RawResponses}

\* no message content, a text that is no JSON, and the JSON texts of null, a
\* number, a string, an array and the objects above
Contents ==
    {NoContent, NotJson, Json(JsNull), Json(Num(5)), Json(Str(<<"h", "i">>)), Json(JsArray)}
    \cup {Json(Obj(fields)) : fields \in RawObjects}

\* respond called for one context after another, the model answering or failing
NextNormalize ==
    \/ \E actionContext \in Contexts, myNumber \in BOOLEAN : Respond(actionContext, myNumber)
    \/ \E content \in Contents : ModelAnswers(content)
    \/ ModelRejects
    \/ BrainReturn

SpecNormalize == InitExec /\ [][NextNormalize]_vars

\* ------------------------------------------------ the memory payloads tried
\* under add: nothing, a text instead of a list, a padded text and a number,
\* a blank text and a text
Adds == {Undefined, Str(<<"x">>),
         Arr(<<Str(<<" ", "a", " ">>), Num(5)>>),
         Arr(<<Str(<<" ">>), Str(<<"b">>)>>)}
\* under update: nothing, an object instead of a list, a pair with a padded
\* text and null, a pair of numbers and a pair without id and a pair with a
\* blank text
Updates == {Undefined, JsObject,
            Arr(<<Entry(Str(<<"m", "1">>), Str(<<" ", "t", " ">>)), JsNull>>),
            Arr(<<Entry(Num(3), Num(4)), Entry(Undefined, Str(<<"t">>)),
                  Entry(Str(<<"m", "2">>), Str(<<" ">>))>>)}
\* under delete: nothing, a text instead of a list, an id, and a blank text, a
\* number and an empty text
Deletes == {Undefined, Str(<<"m", "1">>),
            Arr(<<Str(<<"m", "1">>)>>),
            Arr(<<Str(<<" ">>), Num(5), Str(<<>>)>>)}
\* under memory: nothing, null, a text, a list, and objects of the above
MemoryPayloads ==
    {Undefined, JsNull, Str(<<"x">>), Arr(<<>>)}
    \cup {Delta(add, update, delete) : add \in Adds, update \in Updates, delete \in Deletes}
MemoryContents ==
    {Json(Obj([NoPlan EXCEPT !["response"] = Str(<<"o", "k">>), !["memory"] = payload])) :
        payload \in MemoryPayloads}

\* respond called for a message, the model answering with a memory payload,
\* the pipeline applying the memory of the decision
NextMemory ==
    \/ Respond(GeneralContext, TRUE)
    \/ \E content \in MemoryContents : ModelAnswers(content)
    \/ ApplyDecisionMemory
    \/ MemoryResolves
    \/ MemoryRejects
    \/ MemoryReturn

SpecMemory == InitExec /\ [][NextMemory]_vars

\* a conversation history built with or without Redis, one exchange added
\* after another, the store answering or failing
NextHistory ==
    \/ \E redisAvailable \in BOOLEAN : NewConversationHistory(redisAvailable)
    \/ getConversationHistory
    \/ \E reply \in Replies : addToConversationHistory(reply)
    \/ GetResolves
    \/ GetRejects
    \/ SetResolves
    \/ SetRejects
    \/ DelResolves
    \/ DelRejects

SpecHistory == InitExec /\ [][NextHistory]_vars

\* ------------------------------------------------- the inbound events tried
Owner == <<"+", "1">>
\* MY_NUMBER in the environment, or not
MyNumbers == {Str(Owner), Undefined}
\* From: absent, the owner, the owner over WhatsApp, somebody else, and a
\* number that holds the text whatsapp: inside
Senders == {Undefined, Str(Owner), Str(WhatsappPrefix \o Owner), Str(<<"+", "2">>),
            Str(<<"+">> \o WhatsappPrefix \o <<"1">>)}
\* what the model answers: no JSON, a reply without action, an action outside
\* and an action inside the email context, a reply with a memory to add
PipelineContents ==
    {NotJson,
     Json(Obj([NoPlan EXCEPT !["response"] = Str(<<"o", "k">>)])),
     Json(Obj([NoPlan EXCEPT !["action"] = Str(CheckEmail), !["response"] = Str(<<"o", "k">>)])),
     Json(Obj([NoPlan EXCEPT !["action"] = Str(MarkSpam), !["response"] = Str(<<"o", "k">>)])),
     Json(Obj([NoPlan EXCEPT !["response"] = Str(<<"o", "k">>),
                             !["memory"] = Delta(Arr(<<Str(<<"a">>)>>), Undefined, Undefined)]))}

\* the service started in either build, inbound messages and mails handled
\* one after another, the collaborators answering or failing
NextPipeline ==
    \/ \E variant \in {"brain", "assistant"}, services \in ServiceConfigs,
          myNumber \in MyNumbers, redisAvailable \in BOOLEAN :
          Boot(variant, services, myNumber, redisAvailable)
    \/ \E route \in {"sms", "whatsapp"}, from \in Senders, blank \in BOOLEAN :
          Webhook(route, from, blank)
    \/ \E direct \in BOOLEAN : HandleIncomingEmail(direct)
    \/ HistoryRead
    \/ GetResolves
    \/ GetRejects
    \/ SetResolves
    \/ SetRejects
    \/ DelResolves
    \/ DelRejects
    \/ AwaitResolves
    \/ AwaitRejects
    \/ \E content \in PipelineContents : ModelAnswers(content)
    \/ ModelRejects
    \/ Responded
    \/ MemoryResolves
    \/ MemoryRejects
    \/ MemoryApplied
    \/ HistoryAdded
    \/ Executes
    \/ SendReturns
    \/ CallRejects
    \/ NotifySettles
    \/ Executed
    \/ Notify
    \/ Notified
    \/ AssistantRejects
    \/ \E toolName \in ToolNames : ToolCall(toolName)
    \/ ToolExecuted
    \/ AssistantReturns
    \/ CallerResumes
    \/ WebhookResponds

SpecPipeline == InitExec /\ [][NextPipeline]_vars

\* ================================================================= claims
\* The operation of the sequential specification and its locals.
L == loc[SeqProc]
SeqDone(op) == redis /\ pc[SeqProc] = "done" /\ L.op = op

Records(st) == {id \in Ids : st[id] # Null}
Indexed(idx) == {id \in Ids : idx[id] # NoScore}
Present(snap, id) == snap.index[id] # NoScore \/ snap.store[id] # Null

\* no store call of the run in flight has thrown
NoFaultInRun == faults = L.pre.faults

\* the ready set of a sweep: what was indexed at a score in [0, now] when it began
ReadySet == {id \in Ids : /\ L.pre.index[id] # NoScore
                          /\ 0 <= L.pre.index[id]
                          /\ L.pre.index[id] <= L.now}

FiredInRun(id) == fired[id] - L.pre.fired[id]
Gone(id) == index[id] = NoScore /\ store[id] = Null

\* C1 (as claimed): when a sweep has ended, every reminder that was due with a
\* parseable record has had its callback invoked exactly once in that run and
\* has neither index entry nor record left, also when the callback threw.
C1_SweepFiresOnceAndRemoves ==
    (SeqDone("sweep") /\ NoFaultInRun) =>
        \A id \in ReadySet \ tainted :
            L.pre.store[id].kind = "json" => (FiredInRun(id) = 1 /\ Gone(id))

\* C2 (as claimed): across all sweeps, overlapping ones included, the callback
\* is invoked at most once per reminder id.
C2_AtMostOncePerId == \A id \in Ids : fired[id] <= 1

\* the store holds exactly one record, under id x, as a first scheduleWakeup leaves it
SingleFresh(snap, x) ==
    /\ Records(snap.store) = {x}
    /\ Indexed(snap.index) = {x}
    /\ snap.store[x].kind = "json"
    /\ snap.store[x].hasMerged
    /\ Len(snap.store[x].mergedTasks) = 1
    /\ snap.store[x].mergedTasks[1].scheduledFor = snap.store[x].wakeupTime
    /\ snap.index[x] = snap.store[x].wakeupTime

StoreEmpty(snap) == Records(snap.store) = {} /\ Indexed(snap.index) = {}

\* a scheduleWakeup on an empty store returns the id of the one record it leaves
FirstCallCreates ==
    (SeqDone("schedule") /\ StoreEmpty(L.pre)) =>
        /\ L.result # NoId
        /\ SingleFresh(Snapshot, L.result)
        /\ store[L.result].wakeupTime = L.wakeupTime
        /\ store[L.result].task = L.task
        /\ store[L.result].mergedTasks[1].task = L.task

\* C3: from an empty store, two sequential scheduleWakeup calls whose target
\* times differ by at most the merge window leave one record and one index
\* entry under the id both calls return, with two merged tasks, the label
\* "Combined reminder (2 tasks)" and the earlier target time as fire-time.
C3_WithinWindowMerges ==
    /\ FirstCallCreates
    /\ \A x \in Ids :
          (/\ SeqDone("schedule")
           /\ SingleFresh(L.pre, x)
           /\ Abs(L.wakeupTime - L.pre.store[x].wakeupTime) <= L.window) =>
              /\ L.result = x
              /\ Records(store) = {x}
              /\ Indexed(index) = {x}
              /\ Len(store[x].mergedTasks) = 2
              /\ store[x].mergedTasks[1] = L.pre.store[x].mergedTasks[1]
              /\ store[x].mergedTasks[2] = [task |-> L.task, scheduledFor |-> L.wakeupTime]
              /\ store[x].task = "Combined reminder (2 tasks)"
              /\ store[x].wakeupTime = Min(L.pre.store[x].wakeupTime, L.wakeupTime)
              /\ index[x] = Min(L.pre.store[x].wakeupTime, L.wakeupTime)

\* the second call asked for an earlier time than the first and was merged
C3_Witness ==
    \E x \in Ids : /\ SeqDone("schedule")
                   /\ SingleFresh(L.pre, x)
                   /\ L.wakeupTime < L.pre.store[x].wakeupTime
                   /\ L.pre.store[x].wakeupTime - L.wakeupTime <= L.window
                   /\ L.window = DefaultMergeWindowMs
                   /\ L.result = x

\* C4: from an empty store, two sequential scheduleWakeup calls whose target
\* times differ by more than the merge window give two ids, two records and
\* two index entries, each record with one merged task and its own target time.
C4_BeyondWindowSeparate ==
    /\ FirstCallCreates
    /\ \A x \in Ids :
          (/\ SeqDone("schedule")
           /\ SingleFresh(L.pre, x)
           /\ Abs(L.wakeupTime - L.pre.store[x].wakeupTime) > L.window) =>
              /\ L.result \notin {x, NoId}
              /\ Records(store) = {x, L.result}
              /\ Indexed(index) = {x, L.result}
              /\ store[x] = L.pre.store[x]
              /\ index[x] = L.pre.index[x]
              /\ store[L.result] = NewReminder(L.task, L.wakeupTime)
              /\ Len(store[L.result].mergedTasks) = 1
              /\ index[L.result] = L.wakeupTime

C4_Witness ==
    \E x \in Ids : /\ SeqDone("schedule")
                   /\ SingleFresh(L.pre, x)
                   /\ Abs(L.wakeupTime - L.pre.store[x].wakeupTime) > L.window
                   /\ L.window = DefaultMergeWindowMs
                   /\ Cardinality(Records(store)) = 2

RECURSIVE MinScheduledFor(_)
MinScheduledFor(mergedTasks) ==
    IF Len(mergedTasks) = 1 THEN mergedTasks[1].scheduledFor
    ELSE Min(mergedTasks[1].scheduledFor, MinScheduledFor(Tail(mergedTasks)))

\* a record this service wrote and nothing else touched
OwnRecords == {id \in Ids \ tainted : store[id].kind = "json"}

\* C5: between sequential operations, every record's wakeupTime is the least
\* scheduledFor of its mergedTasks, and the record is indexed at that time.
C5_FireTimeIsEarliestRequest ==
    (redis /\ AllIdle /\ faults = 0) =>
        \A id \in OwnRecords :
            /\ store[id].wakeupTime = MinScheduledFor(store[id].mergedTasks)
            /\ index[id] = store[id].wakeupTime

\* a merged reminder whose fire-time was pulled before its first task's time
C5_Witness ==
    /\ redis /\ AllIdle /\ faults = 0
    /\ \E id \in OwnRecords :
          /\ Len(store[id].mergedTasks) >= 2
          /\ store[id].wakeupTime < store[id].mergedTasks[1].scheduledFor

\* the parseable reminders indexed within the merge window of the target time
Candidates ==
    {id \in Ids : /\ L.pre.index[id] # NoScore
                  /\ Abs(L.pre.index[id] - L.wakeupTime) <= L.window
                  /\ L.pre.store[id].kind = "json"}

\* C6: with several reminders inside the merge window of the target time,
\* scheduleWakeup merges into one whose wakeupTime is closest to the target
\* and leaves every other record and index entry as it was.
C6_MergesIntoClosest ==
    (SeqDone("schedule") /\ Cardinality(Candidates) >= 2) =>
        /\ L.result \in Candidates
        /\ \A c \in Candidates :
              Abs(L.pre.store[L.result].wakeupTime - L.wakeupTime)
                 <= Abs(L.pre.store[c].wakeupTime - L.wakeupTime)
        /\ L.task \in {store[L.result].mergedTasks[k].task :
                          k \in 1 .. Len(store[L.result].mergedTasks)}
        /\ \A id \in Ids \ {L.result} :
              store[id] = L.pre.store[id] /\ index[id] = L.pre.index[id]

\* the closest candidate was not the first of the range query
C6_Witness ==
    /\ SeqDone("schedule")
    /\ Cardinality(Candidates) >= 2
    /\ \E c \in Candidates :
          /\ L.pre.index[c] < L.pre.index[L.result]
          /\ Abs(L.pre.store[L.result].wakeupTime - L.wakeupTime)
                < Abs(L.pre.store[c].wakeupTime - L.wakeupTime)

\* C7 (as claimed): a due entry whose record is corrupt or of an unexpected
\* type is removed from index and store by the sweep, without a callback.
C7_UnusableRecordRemoved ==
    (SeqDone("sweep") /\ NoFaultInRun) =>
        \A id \in ReadySet :
            L.pre.store[id].kind \in {"corrupt", "badtype"} =>
                (Gone(id) /\ FiredInRun(id) = 0)

\* the zrange of the sweep itself threw: there is no ready set to go through
RangeQueryFailed == L.list = <<>> /\ ~NoFaultInRun

\* C8: a sweep goes through its whole ready set and resolves: whatever failed
\* at one entry, every parseable entry whose record could be read has had its
\* callback invoked.
C8_SweepAttemptsEveryEntry ==
    SeqDone("sweep") =>
        /\ L.outcome = "returned"
        /\ RangeQueryFailed \/
             /\ L.visited = ReadySet
             /\ \A id \in ReadySet :
                   (L.pre.store[id].kind = "json" /\ id \notin L.getFailed)
                      => FiredInRun(id) = 1

\* the first entry's callback threw (its record is still there) and the second fired
C8_Witness ==
    /\ SeqDone("sweep")
    /\ Len(L.list) = 2
    /\ NoFaultInRun
    /\ FiredInRun(L.list[1]) = 1
    /\ ~Gone(L.list[1])
    /\ FiredInRun(L.list[2]) = 1

Pending == {id \in Ids : /\ L.pre.index[id] # NoScore
                         /\ L.pre.index[id] >= L.now
                         /\ L.pre.store[id].kind = "json"}
Listed(id) == {k \in 1 .. Len(L.out) : L.out[k].id = id}

C11_NoStoreDegradesToMemory ==
    (~redis /\ pc[SeqProc] = "done") =>
        /\ L.outcome = "returned"
        /\ L.op = "schedule" => L.result # NoId

\* the locals of the two interleaved callers
La == loc["a"]
Lb == loc["b"]

\* The only two calls of the behaviour are scheduleWakeup calls that have both
\* settled, both decided to create (neither search saw the other's entry), and
\* whose target times lie within the merge window of each other.
BothCreatedInWindow ==
    /\ redis /\ ops = 2
    /\ pc["a"] = "done" /\ pc["b"] = "done"
    /\ La.op = "schedule" /\ Lb.op = "schedule"
    /\ La.closestId = NoId /\ Lb.closestId = NoId
    /\ Abs(La.wakeupTime - Lb.wakeupTime) <= mergeWindowMs

\* C12: two scheduleWakeup calls within one merge window that both search
\* before either writes both create; the result is two distinct ids, and each
\* task is held by exactly one record, indexed once at its own target time.
C12_RaceOnlyDuplicates ==
    BothCreatedInWindow =>
        /\ La.result # NoId /\ Lb.result # NoId /\ La.result # Lb.result
        /\ Records(store) = {La.result, Lb.result}
        /\ Indexed(index) = {La.result, Lb.result}
        /\ store[La.result] = NewReminder(La.task, La.wakeupTime)
        /\ store[Lb.result] = NewReminder(Lb.task, Lb.wakeupTime)
        /\ index[La.result] = La.wakeupTime
        /\ index[Lb.result] = Lb.wakeupTime
        /\ La.task # Lb.task

\* the race happened with two different target times inside the default window
C12_Witness ==
    /\ BothCreatedInWindow
    /\ La.wakeupTime # Lb.wakeupTime
    /\ mergeWindowMs = DefaultMergeWindowMs
    /\ Cardinality(Records(store)) = 2

\* resolveEmailIdentifier, called on its own, is past its synchronous part
Resolving == xloc.entry = "resolveEmailIdentifier" /\ xpc # "idle"
ResolveDone == xloc.entry = "resolveEmailIdentifier" /\ xpc = "done"

\* the text of a value as String(value).trim() gives it; none for no value
TrimmedText(v) == IF v \in {Undefined, JsNull} THEN NoText ELSE Trim(ToText(v))

\* the positions in candidateKeys whose value reads as decimal digits only
DigitPositions(pl) ==
    {k \in 1 .. Len(CandidateKeys) : AllDigits(TrimmedText(pl[CandidateKeys[k]]))}
FirstDigitPosition(pl) ==
    CHOOSE k \in DigitPositions(pl) : \A j \in DigitPositions(pl) : k <= j

SearchCalls == {k \in 1 .. Len(calls) : calls[k].fn = "searchEmailsForSeqno"}

\* C13: when a candidate identifier key holds a value whose trimmed text is
\* all decimal digits, resolveEmailIdentifier returns the integer of the first
\* such key in the fixed order and never calls the search collaborator.
C13_DirectIdentifierWins ==
    (Resolving /\ DigitPositions(plan) # {}) =>
        /\ xpc = "done"
        /\ xloc.outcome = "returned"
        /\ xloc.emailId = ParseInt(TrimmedText(plan[CandidateKeys[FirstDigitPosition(plan)]]))
        /\ SearchCalls = {}

\* two identifier keys hold different integers, the later key as a number,
\* the earlier as a padded string
C13_Witness ==
    /\ ResolveDone
    /\ plan["emailID"] = Str(<<" ", "7", " ">>)
    /\ plan["uid"] = Num(42)
    /\ xloc.emailId = 7

\* the plan without its free-text reply
Erased(pl) == [pl EXCEPT !["response"] = Undefined, !["message"] = Undefined]

\* C15: the resolved target does not depend on the free-text reply: what
\* resolveEmailIdentifier returns directly, whether it searches, the criteria it
\* searches with and the missing-identification failure are those of the plan
\* with response and message erased, and after a search the outcome is the
\* search's answer alone.
C15_ReplyTextNeverSearched ==
    Resolving =>
        LET direct == FirstSequence(Erased(plan), 1)
            criteria == DeriveCriteria(Erased(plan))
        IN /\ direct # NoSeq =>
                /\ SearchCalls = {}
                /\ xloc.outcome = "returned" /\ xloc.emailId = direct
           /\ (direct = NoSeq /\ DOMAIN criteria = {}) =>
                /\ SearchCalls = {}
                /\ xloc.outcome = "threw" /\ xloc.error = NeedIdentification
           /\ (direct = NoSeq /\ DOMAIN criteria # {}) =>
                /\ calls = <<SearchCall(xloc.accountId, criteria, 3)>>
                /\ xloc.outcome = "returned" =>
                      /\ xloc.directResults.seqnos # <<>>
                      /\ xloc.emailId = xloc.directResults.seqnos[1]
                /\ xloc.outcome = "threw" => xloc.error \in {UnableToLocate, SearchFailed}

\* the reply is the only text of the plan, and it is not searched for
C15_Witness ==
    /\ ResolveDone
    /\ plan["message"] = Str(<<" ", "x", " ">>)
    /\ plan["response"] = Str(<<" ", "x", " ">>)
    /\ SearchCalls = {}
    /\ xloc.error = NeedIdentification

CanonicalFields == {"subject", "sender", "content"}

\* a value that addCriterion's caller populated with a non-empty text
NonEmptyText(v) == IsString(v) /\ \E k \in 1 .. Len(v.s) : v.s[k] \notin Whitespace

\* the positions, in alias order, of the non-empty aliases of a canonical field
NonEmptyAliases(pl, field) ==
    {k \in 1 .. Len(CriterionAliases) :
        CriterionAliases[k][1] = field /\ NonEmptyText(pl[CriterionAliases[k][2]])}
FirstNonEmptyAlias(pl, field) ==
    CHOOSE k \in NonEmptyAliases(pl, field) : \A j \in NonEmptyAliases(pl, field) : k <= j

\* C16: of several populated aliases of one canonical criterion the criteria
\* keep the trimmed value of the first non-empty alias in the alias order, and
\* the criteria have no key other than subject, sender and content.
C16_FirstAliasWins ==
    \A c \in SearchCalls :
        /\ DOMAIN calls[c].criteria \subseteq CanonicalFields
        /\ \A field \in CanonicalFields :
              NonEmptyAliases(plan, field) # {} =>
                 /\ field \in DOMAIN calls[c].criteria
                 /\ calls[c].criteria[field] =
                       Trim(plan[CriterionAliases[FirstNonEmptyAlias(plan, field)][2]].s)

\* sender and from both hold a text; the search goes out with sender's
C16_Witness ==
    /\ Resolving
    /\ plan["sender"] = Str(<<" ", "x", " ">>)
    /\ plan["from"] = Str(<<"a", "@", "b">>)
    /\ \E c \in SearchCalls : calls[c].criteria = [sender |-> <<"x">>]

SenderAliases == {"sender", "from", "author", "fromEmail", "fromAddress"}

\* exactly one identifier or criteria field is populated, a sender alias
OnlySenderAlias(pl) ==
    \E key \in SenderAliases : Populated(pl) \cap (IdentifierKeys \cup AliasKeys) = {key}
TheSenderAlias(pl) == CHOOSE key \in SenderAliases : pl[key] # Undefined

\* C17: when the only populated identifier or criteria field is a sender
\* alias, the criteria passed to the search are {sender: trimmed value} and
\* nothing else, and a non-empty text under that alias is searched for.
C17_OnlySenderAlias ==
    (Resolving /\ OnlySenderAlias(plan)) =>
        /\ \A c \in SearchCalls :
              calls[c].criteria = [sender |-> Trim(plan[TheSenderAlias(plan)].s)]
        /\ NonEmptyText(plan[TheSenderAlias(plan)]) => SearchCalls # {}

\* fromAddress alone holds a padded text, beside a reply
C17_Witness ==
    /\ Resolving
    /\ plan["fromAddress"] = Str(<<" ", "x", " ">>)
    /\ plan["response"] # Undefined
    /\ OnlySenderAlias(plan)
    /\ calls = <<SearchCall(WorkId, [sender |-> <<"x">>], 3)>>

\* a handler has resolved the account and has called resolveEmailIdentifier
HandlerResolving ==
    /\ xloc.entry = "executeAction"
    /\ xloc.actionName \in TargetHandlers
    /\ xloc.account.kind = "id"
    /\ xloc.actionName = MoveEmail => Truthy(plan["folder"])

\* no integer identifier, no non-empty alias, no identifier text
NoIdentifyingField(pl) ==
    /\ DigitPositions(pl) = {}
    /\ \A field \in CanonicalFields : NonEmptyAliases(pl, field) = {}
    /\ \A k \in 1 .. Len(CandidateKeys) : ~NonEmptyText(pl[CandidateKeys[k]])

MailboxCalls == {k \in 1 .. Len(calls) : calls[k].fn \in MailboxMethods}

\* the calls made on the mailbox, the owner's notifications left out
WithoutNotices == SelectSeq(calls, LAMBDA call : call.fn # "sendEmail" \/ ~call.owner)

\* C14: for a plan with no identifying field resolveEmailIdentifier fails with
\* the missing-identification error, called on its own or by a handler, and no
\* handler ever calls the search collaborator with criteria that have no key.
C14_NoIdentificationNoSearch ==
    /\ (Resolving /\ NoIdentifyingField(plan)) =>
          /\ xloc.outcome = "threw"
          /\ xloc.error = NeedIdentification
          /\ SearchCalls = {}
    /\ (HandlerResolving /\ NoIdentifyingField(plan)) =>
          /\ xloc.error = NeedIdentification
          /\ SearchCalls = {} /\ MailboxCalls = {}
          /\ xpc = "done" => xloc.result = Failure(xloc.actionName, NeedIdentification)
    /\ \A c \in SearchCalls : DOMAIN calls[c].criteria # {}

\* search_email is asked for with a blank sender only, and fails without a search
C14_Witness ==
    /\ xpc = "done"
    /\ xloc.actionName = SearchEmail
    /\ xloc.account.kind = "id"
    /\ plan["sender"] = Str(<<" ">>)
    /\ NoIdentifyingField(plan)
    /\ xloc.result = Failure(SearchEmail, SearchNeedsCriterion)
    /\ SearchCalls = {}

\* the search of resolveEmailIdentifier has answered with no sequence number
SearchFoundNothing ==
    /\ xloc.directResults.kind \in {"missing", "array"}
    /\ xloc.directResults.seqnos = <<>>

\* C18: when the search returns no sequence number, resolveEmailIdentifier
\* fails with the no-match error instead of returning a value, and the handler
\* that called it calls no mailbox mutation.
C18_NoMatchNoMutation ==
    /\ (Resolving /\ SearchFoundNothing) =>
          /\ xloc.outcome = "threw"
          /\ xloc.error = UnableToLocate
          /\ xloc.emailId = NoSeq
    /\ (HandlerResolving /\ SearchFoundNothing) =>
          /\ xloc.error = UnableToLocate
          /\ MailboxCalls = {}
          /\ xpc = "done" => xloc.result = Failure(xloc.actionName, UnableToLocate)

\* delete_email found nothing to delete
C18_Witness ==
    /\ xpc = "done"
    /\ xloc.actionName = DeleteEmail
    /\ xloc.directResults = Seqnos(<<>>)
    /\ SearchCalls # {}
    /\ MailboxCalls = {}
    /\ xloc.result = Failure(DeleteEmail, UnableToLocate)

\* the plan {action: mark_spam, account: work, sender: s} whose search has
\* answered [42, 17]
MarkSpamScenario ==
    /\ xloc.entry = "executeAction"
    /\ Populated(plan) = {"action", "account", "sender"}
    /\ plan["action"] = Str(MarkSpam)
    /\ plan["account"] = Str(WorkId)
    /\ xloc.directResults = Seqnos(<<42, 17>>)

\* C19: for that plan executeAction calls markAsSpam("work", 42), once and
\* after the search, and unless the mailbox rejects the call it returns
\* {success: true, action: "mark_spam", details: {accountId: "work", emailId: 42}}.
C19_FirstResultIsMarked ==
    MarkSpamScenario =>
        /\ WithoutNotices = <<SearchCall(WorkId, [sender |-> Trim(plan["sender"].s)], 3),
                              MailboxCall("markAsSpam", WorkId, 42)>>
        /\ xloc.error \in {NoError, Rejected("markAsSpam")}
        /\ (xpc = "done" /\ xloc.error = NoError) =>
              xloc.result = Success(MarkSpam, [accountId |-> WorkId, emailId |-> 42])

C19_Witness ==
    /\ MarkSpamScenario
    /\ xpc = "done"
    /\ plan["sender"] = Str(<<" ", "x", " ">>)
    /\ xloc.result = Success(MarkSpam, [accountId |-> WorkId, emailId |-> 42])

\* a handler has called resolveAccountId
AccountAsked == xloc.entry = "executeAction" /\ xloc.account.kind # "none"

\* the token, trimmed, equals the id or the email of the account, whatever the case
TokenNames(token, account) ==
    /\ IsString(token)
    /\ \/ ToLowerCase(Trim(token.s)) = ToLowerCase(account.id)
       \/ account.email # NoText /\ ToLowerCase(Trim(token.s)) = ToLowerCase(account.email)
NamedAccounts(token) ==
    {k \in 1 .. Len(executor.accounts) : TokenNames(token, executor.accounts[k])}

\* C20 as stated: an id is returned only for a token that names a configured
\* account, and every other token fails with an error naming the configured ids.
C20_StrictInEveryConfiguration ==
    AccountAsked =>
        /\ xloc.account.kind = "id" =>
              \E k \in NamedAccounts(plan["account"]) :
                 xloc.account.id = executor.accounts[k].id
        /\ NamedAccounts(plan["account"]) = {} =>
              /\ xloc.account.kind = "throw"
              /\ xloc.account.error.available = AccountIds(executor.accounts)

\* C20: with at least one account configured, resolveAccountId returns the id of
\* the first account the trimmed token names, whatever the case, and for an
\* absent, blank or unmatched token throws an error naming the configured ids,
\* never another account's id; with no account configured it returns null and
\* the handler fails with its own error.
C20_StrictOnceConfigured ==
    AccountAsked =>
        IF executor.accounts = <<>>
        THEN /\ xloc.account.kind = "null"
             /\ xloc.error = NoAccountAvailable(xloc.actionName)
             /\ WithoutNotices = <<>>
        ELSE /\ xloc.account.kind = "id" =>
                   /\ NamedAccounts(plan["account"]) # {}
                   /\ \A k \in NamedAccounts(plan["account"]) :
                         (\A j \in NamedAccounts(plan["account"]) : k <= j) =>
                            xloc.account.id = executor.accounts[k].id
             /\ NamedAccounts(plan["account"]) = {} =>
                   /\ xloc.account.kind = "throw"
                   /\ xloc.account.error.available = AccountIds(executor.accounts)
                   /\ xloc.error = xloc.account.error
                   /\ WithoutNotices = <<>>

\* an unknown account name is refused with the two configured ids named
C20_Witness ==
    /\ xpc = "done"
    /\ AccountAsked
    /\ plan["account"] = Str(<<"n", "o", "p", "e">>)
    /\ xloc.account.kind = "throw"
    /\ xloc.account.error.available = <<WorkId, <<"H", "o", "m", "e">> >>
    /\ xloc.result.success = FALSE

\* ------------------------------------------------------------ the dispatcher
\* an executeAction call is under way or has just finished
Dispatching == xloc.entry = "executeAction"
Dispatched == xpc = "done" /\ Dispatching

\* C21: executeAction always returns an ActionExecutionResult and never
\* throws, whatever value it is handed as its plan (null, a number, a string,
\* an object with fields of unexpected types) and whatever fails inside it.
C21_AlwaysAResult ==
    Dispatched =>
        /\ xloc.outcome = "result"
        /\ "success" \in DOMAIN xloc.result

\* plan.action is absent, not a string, or blank once trimmed (a number or a
\* string handed over as the plan has no action property either)
Blank(text) == \A k \in 1 .. Len(text) : text[k] = " "
NoActionGiven ==
    /\ plan # JsNull
    /\ \/ ~IsPlanObject(plan)
       \/ plan["action"] = Undefined
       \/ plan["action"].t # "string"
       \/ plan["action"].t = "string" /\ Blank(plan["action"].s)

\* C22: when plan.action is absent, not a string, or blank after trimming,
\* executeAction returns {success: false, error: "missing_action"} at once: no
\* handler runs, no collaborator method is called and the owner is not notified.
C22_MissingActionNoEffects ==
    Dispatching /\ NoActionGiven =>
        /\ xpc = "done"
        /\ xloc.outcome = "result"
        /\ xloc.result = [success |-> FALSE, error |-> Error("missing_action")]
        /\ xloc.trail = <<"received", "rejected_no_action", "result">>
        /\ calls = <<>>

\* a blank action with a reply, on an executor that could notify the owner
C22_Witness ==
    /\ Dispatched
    /\ executor.ownerNumber /\ executor.emailService
    /\ IsPlanObject(plan)
    /\ plan["action"] = Str(<<" ">>)
    /\ plan["response"] # Undefined
    /\ xloc.result.error = Error("missing_action")

InTrail(phase) == \E k \in 1 .. Len(xloc.trail) : xloc.trail[k] = phase
\* the notifications asking the owner's gateway to deliver a message of this kind
Notices(kind) ==
    SelectSeq(calls, LAMBDA call : call.fn = "sendEmail" /\ call.owner /\ call.body.kind = kind)

\* C23: for a recognized action executeAction returns {success: true, action,
\* details} with the handler's return value as details if and only if the
\* handler completed without throwing; if the handler threw it returns
\* {success: false, action, error} with the thrown message, after at most one
\* notification describing the failure, whose own failure changes nothing.
C23_SuccessIffHandlerCompleted ==
    Dispatched /\ InTrail("dispatched") =>
        /\ xloc.result.success <=> InTrail("succeeded")
        /\ InTrail("succeeded") =>
              xloc.result = [success |-> TRUE, action |-> xloc.actionName,
                             details |-> xloc.details]
        /\ ~InTrail("succeeded") =>
              /\ xloc.result = [success |-> FALSE, action |-> xloc.actionName,
                                error |-> xloc.error]
              /\ Len(Notices("error")) = IF executor.ownerNumber /\ executor.emailService
                                         THEN 1 ELSE 0

\* the plan is a send_email to an address at the owner's SMS gateway
ToSmsGateway ==
    /\ xloc.actionName = SendEmail
    /\ plan["to"].t = "string"
    /\ \E k \in 1 .. Len(plan["to"].s) :
          SubSeq(plan["to"].s, k, Len(plan["to"].s)) = SmsGateway

ReplyDue ==
    /\ plan["response"].t = "string" /\ plan["response"].s # <<>>
    /\ executor.ownerNumber
    /\ "skipOwnerNotification" \notin DOMAIN xloc.details
    /\ ~ToSmsGateway

\* C24: after a handler succeeds the plan's reply is delivered to the owner
\* exactly once when the plan carries a reply, an owner contact is configured,
\* the handler result does not set skipOwnerNotification and the action is not
\* a send_email addressed to the SMS gateway; otherwise it is not delivered.
C24_ReplyExactlyWhenDue ==
    Dispatched /\ InTrail("succeeded") =>
        Len(Notices("reply")) = IF ReplyDue THEN 1 ELSE 0

\* every message sent to the owner's gateway in this call
OwnerNotices == SelectSeq(calls, LAMBDA call : call.fn = "sendEmail" /\ call.owner)
SummaryHandlers == {CheckEmail, SearchEmail, UnsubscribeEmail}

\* C25: a successful check_email, search_email or unsubscribe_email sends the
\* owner at most one notification, the handler's own summary: the result
\* always sets skipOwnerNotification and the plan's reply is not delivered
\* a second time by notifyOwnerIfNeeded.
C25_SummaryIsTheOnlyNotice ==
    Dispatched /\ xloc.actionName \in SummaryHandlers /\ xloc.result.success =>
        /\ "skipOwnerNotification" \in DOMAIN xloc.result.details
        /\ xloc.result.details.skipOwnerNotification
        /\ Len(OwnerNotices) <= 1
        /\ Notices("reply") = <<>>
        /\ \A k \in 1 .. Len(OwnerNotices) :
              OwnerNotices[k].body.kind \in {"emails", "results", "unsubscribe"}

\* a search whose plan carries a reply ends with the summary as its one notice
C25_Witness ==
    /\ Dispatched
    /\ xloc.actionName = SearchEmail
    /\ xloc.result.success
    /\ plan["response"] = Str(<<" ", "x", " ">>)
    /\ executor.ownerNumber
    /\ Len(OwnerNotices) = 1
    /\ OwnerNotices[1].body.kind = "results"

PhaseCount(phase) == Cardinality({k \in 1 .. Len(xloc.trail) : xloc.trail[k] = phase})
Rejections == {"rejected_no_action", "rejected_unsupported"}

\* the phases of the call under way are in the order of the state machine
PhasesInOrder ==
    Dispatching =>
        /\ Len(xloc.trail) >= 2
        /\ xloc.trail[1] = "received"
        /\ xloc.trail[2] \in Rejections \cup {"dispatched"}
        /\ \A k \in 3 .. Len(xloc.trail) :
              xloc.trail[k] \in {"succeeded", "failed", "notified", "result"}
        /\ \A phase \in {"received", "dispatched", "succeeded", "failed", "notified", "result"} :
              PhaseCount(phase) <= 1
        \* a rejected call never invokes a handler
        /\ xloc.trail[2] \in Rejections =>
              /\ ~InTrail("succeeded") /\ ~InTrail("failed") /\ ~InTrail("notified")
              /\ WithoutNotices = <<>>
        \* notify-if-needed only after the handler succeeded, never after it failed
        /\ \A k \in 1 .. Len(xloc.trail) :
              xloc.trail[k] = "notified" =>
                  /\ xloc.trail[k - 1] = "succeeded"
                  /\ ~InTrail("failed")
        /\ InTrail("notified") => Len(Notices("reply")) = 1
        /\ ~InTrail("notified") => Notices("reply") = <<>> \/ xloc.trail[2] = "rejected_unsupported"
        \* exactly one result, and it ends the call
        /\ xpc = "done" <=> InTrail("result")
        /\ InTrail("result") =>
              /\ xloc.trail[Len(xloc.trail)] = "result"
              /\ xloc.outcome = "result"
              /\ xloc.trail[2] = "dispatched" => InTrail("succeeded") \/ InTrail("failed")

\* a call starts from fresh locals and leaves the executor as it was built
NothingCarriedOver ==
    /\ executor.constructed => executor' = executor
    /\ xpc = "idle" /\ xpc' # "idle" => xloc = IdleExec /\ calls = <<>>
    /\ xpc = "done" /\ xpc' # "done" => xpc' = "idle" /\ xloc' = IdleExec /\ calls' = <<>>

MutationHandlers == {MarkSpam, MarkRead, MarkUnread, DeleteEmail, MoveEmail}
MutationMethods == {"markAsSpam", "markAsRead", "markAsUnread", "deleteEmail", "moveEmail"}
Mutations == {k \in 1 .. Len(calls) : calls[k].fn \in MutationMethods}

\* the account the plan names, by the rule of C20, and the target the plan or
\* the search gives, by the rules of C13 and C19
NamedAccount == executor.accounts[CHOOSE k \in NamedAccounts(plan["account"]) :
                                     \A j \in NamedAccounts(plan["account"]) : k <= j]
TargetGiven ==
    IF DigitPositions(plan) # {}
    THEN ParseInt(TrimmedText(plan[CandidateKeys[FirstDigitPosition(plan)]]))
    ELSE xloc.directResults.seqnos[1]

\* C27: one mark_spam, mark_read, mark_unread, delete_email or move_email call
\* calls its mailbox mutation at most once, after the account and then the
\* target have been resolved, with exactly that account id and that sequence
\* number; when either resolution fails no mailbox mutation is called.
C27_MutationOnlyOnResolvedTarget ==
    Dispatching /\ xloc.actionName \in MutationHandlers =>
        /\ Cardinality(Mutations) <= 1
        /\ \A k \in Mutations :
              /\ calls[k].fn = MailboxMethod(xloc.actionName)
              /\ NamedAccounts(plan["account"]) # {}
              /\ xloc.account.kind = "id"
              /\ calls[k].accountId = NamedAccount.id
              /\ DigitPositions(plan) # {} \/ /\ xloc.directResults.kind = "array"
                                              /\ xloc.directResults.seqnos # <<>>
              /\ calls[k].emailId = TargetGiven
              /\ calls[k].emailId = xloc.emailId
              \* the search of the target, when there was one, came before
              /\ \A j \in SearchCalls : j < k /\ calls[j].accountId = calls[k].accountId
              /\ xloc.actionName = MoveEmail => calls[k].folder = plan["folder"]
        /\ xloc.account.kind \in {"null", "throw"} => Mutations = {} /\ SearchCalls = {}
        /\ xloc.error \in {NeedIdentification, UnableToLocate, SearchFailed} => Mutations = {}
        /\ (xpc = "done" /\ Mutations = {}) => ~xloc.result.success

\* delete_email on the second account, named in another case, target found by search
C27_Witness ==
    /\ Dispatched
    /\ xloc.actionName = DeleteEmail
    /\ plan["account"] = Str(<<"h", "o", "m", "e">>)
    /\ DigitPositions(plan) = {}
    /\ WithoutNotices = <<SearchCall(<<"H", "o", "m", "e">>, xloc.criteria, 3),
                          MailboxCall("deleteEmail", <<"H", "o", "m", "e">>, 42)>>
    /\ xloc.result.success

\* ---------------------------------------------------------- the normalizer
\* respond has ended for a message of the model
Normalized == brain.pc = "done" /\ brain.content # NoContent
\* the model's message was the JSON text of an object
RawFields == brain.content.value.fields
RawIsObject ==
    /\ brain.content.kind = "text" /\ brain.content.json
    /\ brain.content.value.t = "object"

NonEmptyString(v) == v.t = "string" /\ Len(v.s) > 0

\* C28: for every raw reasoning output (an object, the empty object, null,
\* a text that is no JSON, an object whose action or response has an
\* unexpected type) and every context the normalizer returns a decision and
\* does not throw, and the decision's response is a non-empty string; output
\* that cannot be parsed is treated as the empty object.
C28_AlwaysADecisionWithResponse ==
    /\ Normalized =>
          /\ brain.outcome = "returned"
          /\ NonEmptyString(brain.result["response"])
    /\ (brain.pc = "done" /\ brain.content = NotJson) =>
          brain.result = Normalize(Json(Obj(NoPlan)), brain.actionContext, brain.myNumber).result

\* the model's message was the empty object {}
EmptyObjectGiven == brain.pc = "done" /\ brain.content = Json(Obj(NoPlan))

Permitted(context) ==
    CASE context = GeneralContext -> BASE_ALLOWED_ACTIONS
      [] context = EmailContext -> EMAIL_CONTEXT_ACTIONS
      [] context = ErrorContext -> ERROR_CONTEXT_ACTIONS
PipelineContexts == {GeneralContext, EmailContext, ErrorContext}

\* the decision carries an action: a value a caller testing decision.action acts on
CarriesAction(decision) == Truthy(decision["action"])

\* the raw output named, as a string, an action the context does not permit
RawActionRefused ==
    /\ RawIsObject
    /\ RawFields["action"].t = "string"
    /\ RawFields["action"].s # <<>>
    /\ RawFields["action"].s \notin Permitted(brain.actionContext)

\* C30: for every raw reasoning output and each of the contexts general,
\* email and error, the action of the normalized decision, when present, is a
\* string of that context's allowed set; a raw action outside the set is
\* dropped and the decision still has a non-empty response.
C30_ActionWithinContext ==
    (Normalized /\ brain.actionContext \in PipelineContexts) =>
        /\ brain.outcome = "returned"
        /\ CarriesAction(brain.result) =>
              /\ brain.result["action"].t = "string"
              /\ brain.result["action"].s \in Permitted(brain.actionContext)
        /\ RawActionRefused =>
              /\ brain.result["action"] # RawFields["action"]
              /\ NonEmptyString(brain.result["response"])

\* the raw output carries no action: it is no object, or its action is absent,
\* null or empty
NoRawAction == ~RawIsObject \/ ~Truthy(RawFields["action"])

\* C31: whenever the raw reasoning output has no action, or its action was
\* dropped as not permitted, the normalized decision carries the synthesized
\* delivery action that sends the response text through the default
\* notification channel, in each of the contexts general, email and error.
C31_ReplyAlwaysHasDelivery ==
    (Normalized /\ brain.actionContext \in PipelineContexts
                /\ (NoRawAction \/ RawActionRefused)) =>
        /\ brain.outcome = "returned"
        /\ NonEmptyString(brain.result["response"])
        /\ brain.result["action"] = Str(SendEmail)
        /\ brain.result["body"] = brain.result["response"]
        /\ NonEmptyString(brain.result["to"])
        /\ brain.result["account"] = Str(NovaSms)

\* the memory payload of the raw reasoning output
RawMemory == IF RawIsObject THEN RawFields["memory"] ELSE Undefined

\* a non-empty trimmed string; an {id, text} pair; a memory of exactly the
\* three arrays of such entries
IsTrimmedText(v) == v.t = "string" /\ v.s # <<>> /\ Trim(v.s) = v.s
IsPair(v) ==
    /\ v.t = "object" /\ "fields" \in DOMAIN v
    /\ DOMAIN v.fields = {"id", "text"}
    /\ v.fields["id"].t = "string" /\ v.fields["text"].t = "string"
AllItems(v, Test(_)) == IsArray(v) /\ \A k \in 1 .. Len(Items(v)) : Test(Items(v)[k])
IsMemoryPayload(m) ==
    /\ m.t = "object" /\ "fields" \in DOMAIN m
    /\ DOMAIN m.fields = MemoryKeys
    /\ AllItems(m.fields["add"], IsTrimmedText)
    /\ AllItems(m.fields["update"], IsPair)
    /\ AllItems(m.fields["delete"], IsTrimmedText)

\* C32: for every raw memory payload, the memory of the normalized decision
\* has exactly the three arrays add (non-empty trimmed strings), update
\* ({id, text} pairs) and delete (non-empty trimmed strings).
C32_MemoryIsNormalized ==
    (Normalized /\ brain.outcome = "returned") => IsMemoryPayload(brain.result["memory"])

\* what the earlier reasoning step made of the same payload
EarlierStepNormalizes == Normalized => IsMemoryPayload(normalizeMemoryPayload(RawMemory))

\* every entry that reaches the memory client is well formed
WellFormedCall(call) ==
    CASE call.fn = "addMemory" -> IsTrimmedText(call.text)
      [] call.fn = "updateMemory" -> Truthy(call.id) /\ IsTrimmedText(call.text)
      [] call.fn = "deleteMemory" -> IsTrimmedText(call.id)
OnlyWellFormedEntriesApplied ==
    \A k \in 1 .. Len(memory.calls) : WellFormedCall(memory.calls[k])
\* no delete entry is malformed => only well formed entries are applied
DeletesWellFormed ==
    LET given == Get(memory.delta, "delete")
    IN IsArray(given) => \A k \in 1 .. Len(Items(given)) :
            IsTrimmedText(Items(given)[k]) \/ ~Truthy(Items(given)[k])
MalformedDeletesApplied == DeletesWellFormed => OnlyWellFormedEntriesApplied

\* s is the end of t
IsSuffix(s, t) == Len(s) <= Len(t) /\ s = SubSeq(t, Len(t) - Len(s) + 1, Len(t))

\* C35: after any sequence of addToConversationHistory calls the stored
\* conversation history holds at most 6 entries, and they are the most
\* recently added user and assistant entries in their original order; as long
\* as the store has answered and every reply could be read, it holds all of
\* the last 6.
C35_HistoryIsTheRecentEntries ==
    /\ Len(StoredHistory) <= 6
    /\ IsSuffix(StoredHistory, history.added)
    /\ (history.faults = 0 /\ ~history.broken) =>
            Len(StoredHistory) = Min(6, Len(history.added))

\* more than 6 entries were added and the oldest were dropped
C35_Witness ==
    /\ history.pc = "idle" /\ Len(history.added) > 6
    /\ Len(StoredHistory) = 6
    /\ StoredHistory[1] # history.added[1]

\* the hand-overs of the failure notice made by the catch of runNovaPipeline,
\* and the sends of that notice
FailureNotices == SelectSeq(pipeline.executions, LAMBDA execution : execution.for = "notifying")
NoticeSends(execution) ==
    Len(SelectSeq(execution.calls, LAMBDA call : call.fn = "sendEmail" /\ ~call.owner))
\* runNovaPipeline failed at one of its awaits
InfrastructureError == pipeline.error \notin {"none", "blank input"}

StripPrefix(s) ==
    IF MatchAt(s, WhatsappPrefix, 1) THEN SubSeq(s, Len(WhatsappPrefix) + 1, Len(s)) ELSE s
\* the request names a sender who, without that prefix, is the configured owner
SenderIsOwner ==
    /\ pipeline.from # Undefined /\ pipeline.myNumber # Undefined
    /\ StripPrefix(pipeline.from.s) = pipeline.myNumber.s
ByWebhook == pipeline.entry \in {"sms", "whatsapp"}

\* C34: the SMS/WhatsApp webhook invokes the pipeline only when the sender,
\* after removing a whatsapp: prefix, equals the configured owner number; for
\* every other request, a request without sender included, neither the
\* pipeline nor the dispatcher is invoked and the empty response is returned.
C34_OnlyTheOwnerIsHeard ==
    (ByWebhook /\ ~SenderIsOwner) =>
        /\ ~pipeline.invoked
        /\ pipeline.executions = <<>>
        /\ pipeline.pc = "responded" /\ pipeline.responded

\* the gate as the claim has it, for requests that name a sender whose number
\* does not hold whatsapp: beyond its start
SenderIsPlain ==
    /\ pipeline.from # Undefined
    /\ ~Includes(StripPrefix(pipeline.from.s), WhatsappPrefix)
GateForPlainSenders == SenderIsPlain => C34_OnlyTheOwnerIsHeard
\* the owner is always heard, and every request is answered in the end
OwnerIsHeard == (ByWebhook /\ SenderIsOwner) => pipeline.invoked

\* the handlers the dispatcher has run or is running for the event at hand
HandlerRan(trail) == \E k \in 1 .. Len(trail) : trail[k] = "dispatched"
HandlersRun ==
    {pipeline.executions[k].actionName :
        k \in {j \in 1 .. Len(pipeline.executions) : HandlerRan(pipeline.executions[j].trail)}}
    \cup (IF HandlerRan(xloc.trail) THEN {xloc.actionName} ELSE {})
ForIncomingEmail == pipeline.entry = "email" /\ pipeline.actionContext = EmailContext

\* C40: for an inbound-email event (action context email) the dispatcher
\* never runs a handler for an action outside the set permitted in the email
\* context, whatever the reasoning step emits.
C40_EmailEventsStayInContext ==
    ForIncomingEmail => HandlersRun \subseteq EMAIL_CONTEXT_ACTIONS

\* the same with NovaBrain doing the reasoning
BrainStaysInContext == pipeline.variant = "brain" => C40_EmailEventsStayInContext
\* a handler did run for an inbound email under NovaBrain
BrainRanAHandler ==
    /\ ForIncomingEmail /\ pipeline.variant = "brain"
    /\ \E k \in 1 .. Len(pipeline.executions) :
            /\ pipeline.executions[k].for = "executeAction"
            /\ HandlerRan(pipeline.executions[k].trail)

\* no operation of the scheduler is in flight
NothingInFlight == \A p \in Procs : pc[p] \in {"idle", "done"}
\* the tasks a record lists
TasksIn(record) == {record.mergedTasks[k].task : k \in 1 .. Len(record.mergedTasks)}
\* p's scheduleWakeup has returned the id of a reminder it merged into
MergedInto(p, id) ==
    /\ pc[p] = "done" /\ loc[p].op = "schedule" /\ loc[p].outcome = "returned"
    /\ loc[p].result = id /\ loc[p].closestId = id
    /\ store[id].kind = "json"

\* C36: under any interleaving of concurrent scheduleWakeup calls that merge
\* into the same existing reminder no task is lost: once the calls have
\* completed, the task of every call that returned the reminder's id is in
\* that record's mergedTasks, and the list has grown by one entry per merge.
C36_NoTaskLostInMerge ==
    NothingInFlight =>
        \A id \in Ids :
            /\ \A p \in Procs : MergedInto(p, id) => loc[p].task \in TasksIn(store[id])
            /\ (\A p \in Procs : MergedInto(p, id) /\ loc[p].pre.store[id].kind = "json"
                                 /\ loc[p].pre.store[id] = loc["a"].pre.store[id]) =>
                    Len(store[id].mergedTasks) =
                        Len(loc["a"].pre.store[id].mergedTasks) + Cardinality(Procs)

\* p's scheduleWakeup settles in this step
ScheduleSettles(p) == pc[p] # "done" /\ pc'[p] = "done" /\ loc'[p].op = "schedule"

\* the call returns the id of a record that lists its task
ReturnsItsRecord(p) ==
    /\ loc'[p].outcome = "returned"
    /\ loc'[p].result # NoId
    /\ store'[loc'[p].result].kind = "json"
    /\ loc'[p].task \in TasksIn(store'[loc'[p].result])

\* C37: with a store configured every scheduleWakeup call returns the id of
\* a record that contains its task (the record from which a fair sweep later
\* builds the instruction handed to the callback), also when the call
\* interleaves with a processWakeups run that is firing the reminder it
\* merges into.
C37_ScheduleReturnsItsRecord ==
    [][\A p \in Procs : (redis /\ ScheduleSettles(p)) => ReturnsItsRecord(p)]_vars

\* a call that returns a record's id leaves the id in the index, where the
\* sweep looks for what to fire
ReturnedRecordIsIndexed ==
    [][\A p \in Procs : (redis /\ ScheduleSettles(p) /\ loc'[p].result # NoId)
                            => index'[loc'[p].result] # NoScore]_vars

\* C38: whenever no operation of the scheduler is in flight, the index and
\* the record store agree: an id is a member of the nova_wakeups index if
\* and only if a record is stored under it (no orphan record, no dangling
\* index entry), whether the operations ran one after another or interleaved.
C38_IndexAndStoreAgree ==
    (redis /\ NothingInFlight) =>
        \A id \in Ids : index[id] # NoScore <=> store[id].kind # "null"

\* the same while operations are in flight: the two writes of an operation
\* are separate store calls
AgreeAtEveryStep ==
    redis => \A id \in Ids : index[id] # NoScore <=> store[id].kind # "null"

\* p's cancelReminder(id), called for a reminder that was pending, has
\* completed and p has not gone on to anything else
CancelCompleted(p, id) ==
    /\ redis
    /\ pc[p] = "done" /\ loc[p].op = "cancel" /\ loc[p].id = id
    /\ loc[p].outcome = "returned"
    /\ loc[p].pre.index[id] # NoScore /\ loc[p].pre.store[id].kind = "json"

\* in this step q's sweep reads id's record and invokes the callback for it
SweepFires(q, id) == pc[q] = "sw_get" /\ fired'[id] > fired[id]

\* in this step q's getPendingReminders reads id's record and lists it
PendingLists(q, id) ==
    /\ pc[q] = "pd_get" /\ loc[q].list[loc[q].i] = id
    /\ Len(loc'[q].out) > Len(loc[q].out)

\* C39: once cancelReminder(id) has completed, no later sweep invokes the
\* callback for id and getPendingReminders does not list id, even when a
\* scheduleWakeup call that had selected id as its merge target was in
\* flight at the time of the cancellation.  (While the canceller rests, its
\* del done, only the other caller acts: a record it reads under id is one it
\* wrote after the cancellation, in an operation that ended before the sweep
\* or the listing began.)
C39_CancelledStaysCancelled ==
    [][\A p \in Procs : \A id \in Ids :
          CancelCompleted(p, id) =>
              \A q \in Procs \ {p} : ~SweepFires(q, id) /\ ~PendingLists(q, id)]_vars

\* the same for the sweep alone, and for the listing alone
NoSweepAfterCancel ==
    [][\A p \in Procs : \A id \in Ids :
          CancelCompleted(p, id) => \A q \in Procs \ {p} : ~SweepFires(q, id)]_vars
NoListingAfterCancel ==
    [][\A p \in Procs : \A id \in Ids :
          CancelCompleted(p, id) => \A q \in Procs \ {p} : ~PendingLists(q, id)]_vars

====
